---- MODULE Spec2Model ----
(***************************************************************************)
(* The position lifecycle engine of duo-live: the position monitor         *)
(* (live/live_position_monitor.py) working on one symbol against the       *)
(* exchange, which is the single shared mutable resource.  The monitor's   *)
(* handlers are translated from the code shown in the design documents of  *)
(* the repository; the exchange, the user acting on the exchange and the   *)
(* clock are the environment.                                              *)
(*                                                                         *)
(* Quantities are integers in units of half a lot step (StepSize = 2       *)
(* units), so that halving and rounding to the step are real computations. *)
(* A trigger price is represented by the percentage it was computed from.  *)
(* The hold time of a position is an input of the policy evaluation, as    *)
(* the clock is read there.  A handler runs as one step; the steps of the  *)
(* monitor cycle (sweep, poll, evaluation) are separate steps between      *)
(* which the exchange and the user can act.                                *)
(*                                                                         *)
(* Spec is the monitor on its symbol.  Further specifications share the    *)
(* module: ClientSpec, the exchange client's _request with its retry loop  *)
(* and ban window; StreamSpec, the monitor with the realtime stream;       *)
(* LockSpec, the order operations under a symbol's lock; EntrySpec, the    *)
(* entry flow under the entry lock; RunSpec, the monitor's run_forever     *)
(* loop with a stop request.  Each leaves the others' variables unchanged. *)
(* CloseSpec, RoundSpec, LifeSpec, FilterSpec and SurgeSpec apply a        *)
(* function of the program (the forced close, the quantity rounding, the   *)
(* evaluation of a position over its lifetime, the risk filter pipeline,   *)
(* the consecutive-surge check) to every input within the bounds; the      *)
(* input and the result are held in calc.  The smaller components keep     *)
(* their state in calc as well: NotifySpec (the notifier), CacheSpec (the  *)
(* exchange info cache), WsSpec (the stream's reconnect loop, with         *)
(* fairness), and of the dashboard PostSpec (a manual order's POST),       *)
(* PageSpec (the positions page), LogsSpec (the log page's live mode) and  *)
(* KlineSpec (the kline stream hook).                                      *)
(***************************************************************************)
EXTENDS Integers, Sequences, FiniteSets, TLC

\* ---------------------------------------------------------------- bounds
MaxPositions == 2      \* signals accepted during one run
MaxCopies == 3         \* orders one submission leaves when a timed-out request is re-sent
MaxCallers == 2        \* coroutines with a request to the exchange client at a time
MaxNow == 3            \* the clock of the client runs from 0 to MaxNow
MaxBan == 2            \* the longest ban the exchange announces, in clock ticks
MaxSymbols == 2        \* symbols traded
MaxAmt == 6            \* the largest position amount a forced close is computed for
MaxQty == 15           \* the largest raw quantity that is rounded, in units
MaxStep == 4           \* the largest step size a quantity is rounded to, in units
MaxCycles == 5         \* the most monitor cycles one position's lifetime is followed for
MaxTime == 4           \* how far the clock of the exchange info cache runs, in units of 2 h
MaxDrops == 3          \* disconnects of the realtime stream that are followed
MaxFlips == 3          \* times the exchange starts or stops accepting connections
MaxVolume == 11        \* the largest hourly volume of a kline, in units
MaxAvg == 1            \* the largest average hourly sell volume of the prior day, in units
MaxConfirms == 3       \* confirmations of a manual request that are followed
MaxRequests == 4       \* close requests of the positions page in flight at a time
MaxSockets == 3        \* WebSockets one page or hook creates
MaxInstances == 2      \* runs of the kline stream hook's effect
MaxWorkers == 2        \* signals in the entry flow at a time
max_positions == 2     \* configuration: positions open at a time
max_entries_per_day == 2   \* configuration: entries in a day

\* ------------------------------------------------------ program constants
StepSize == 2          \* LOT_SIZE stepSize, in units
EntryQty == 4          \* intended quantity of an entry, in units
StrongTp == 33
MediumTp == 21
WeakTp == 10
SlPct == 18
EXCHANGE_INFO_TTL == 2 \* _EXCHANGE_INFO_TTL, 4 h in units of 2 h
RECONNECT_DELAY == 5   \* the reconnect delay of the realtime stream, seconds
SURGE_RATIO == 10      \* hourly sell volume over the average that counts as a surge
RETRIES == 1           \* fetchWithRetry: retries
FilterCount == 7       \* the risk filters of the pipeline
MAX_RETRIES == 5
RETRY_BACKOFF == <<2, 4, 8, 16, 32>>

TP == "TAKE_PROFIT_MARKET"
SL == "STOP_MARKET"
NoId == 0
GoneId == 0 - 1

VARIABLES
    positions,     \* the tracked positions, in the order they were registered
    closedLog,     \* the entry order ids of the closed positions that left the set
    entries,       \* the number of entry orders submitted so far
    exAmt,         \* exchange: the signed position amount of the symbol
    exAlgo,        \* exchange: the open conditional orders, oldest first
    exEntry,       \* exchange: the entry order, "none" | "open" | "filled"
    phase,         \* the step of the monitor cycle that runs next
    last,          \* what the last handler to run saw and did
    calls,         \* the exchange calls of the last forced close, in order
    now,           \* exchange client: the clock, time.time()
    ban_until,     \* exchange client: _ban_until, shared by every request
    req,           \* exchange client: each caller's _request
    poll,          \* realtime stream: an out-of-cycle poll is scheduled
    task,          \* order operations: what each task is doing, on which symbol
    holder,        \* order operations: the task holding each symbol's lock
    worker,        \* entry flow: where each signal's handling stands
    entry_lock,    \* entry flow: the worker holding the entry lock
    opened,        \* entry flow: the symbols with an open position
    entries_today, \* entry flow: the entries made today
    running,       \* monitor loop: the flag run_forever tests
    loop,          \* monitor loop: where run_forever stands
    stopped,       \* monitor loop: where it stood when the stop was requested
    calc           \* a computation: its inputs and, once made, its result

monitorVars == <<positions, closedLog, entries, exAmt, exAlgo, exEntry, phase, last, calls>>

clientVars == <<now, ban_until, req>>

streamVars == <<poll>>

lockVars == <<task, holder>>

entryVars == <<worker, entry_lock, opened, entries_today>>

runVars == <<running, loop, stopped>>

calcVars == <<calc>>

vars == <<positions, closedLog, entries, exAmt, exAlgo, exEntry, phase, last, calls,
          now, ban_until, req, poll, task, holder, worker, entry_lock, opened,
          entries_today, running, loop, stopped, calc>>

\* What the steps of each part leave unchanged.
exceptMonitor == <<clientVars, streamVars, lockVars, entryVars, runVars, calcVars>>

exceptStream == <<clientVars, lockVars, entryVars, runVars, calcVars>>

exceptClient == <<monitorVars, streamVars, lockVars, entryVars, runVars, calcVars>>

exceptLock == <<monitorVars, clientVars, streamVars, entryVars, runVars, calcVars>>

exceptEntry == <<monitorVars, clientVars, streamVars, lockVars, runVars, calcVars>>

exceptRun == <<clientVars, streamVars, lockVars, entryVars, calcVars>>

exceptCalc == <<monitorVars, clientVars, streamVars, lockVars, entryVars, runVars>>

\* ---------------------------------------------------------------- helpers
Abs(x) == IF x < 0 THEN -x ELSE x

Ids(orders) == {orders[k].id : k \in 1..Len(orders)}

OfType(orders, t) == SelectSeq(orders, LAMBDA o : o.type = t)

Without(orders, ids) == SelectSeq(orders, LAMBDA o : o.id \notin ids)

Call(api, id, side, qty) == [api |-> api, id |-> id, side |-> side, qty |-> qty]

CancelCalls(orders) == [k \in 1..Len(orders) |-> Call("cancel_algo_order", orders[k].id, "", 0)]

\* What a handler leaves in `last`: the position it ran for, the amount the
\* exchange reported, whether a tracked id was missing from the open list, what
\* became of each protective order and how many open orders of its kind the
\* placement found, the orders the sweep cancelled, and of a forced close the
\* answer to the reduce-only order, the path taken, the reason, the alert and
\* the exchange's answers to the close orders, in the order they were sent.
NoEvent == [op |-> "none", pos |-> 0, amt |-> 0, tpGone |-> FALSE, slGone |-> FALSE,
            tp |-> "none", sl |-> "none", tpHad |-> 0, slHad |-> 0, swept |-> 0,
            first |-> "none", path |-> "none", reason |-> "", alert |-> FALSE,
            answers |-> <<>>]

\* Python's round(): to the nearest integer, a tie to the even one.
PyRound(n, d) ==
    LET k == n \div d
        r == n % d
    IN  IF 2 * r < d THEN k
        ELSE IF 2 * r > d THEN k + 1
        ELSE IF k % 2 = 0 THEN k ELSE k + 1

\* round(quantity / step_size) * step_size
RoundQty(quantity, step_size) == PyRound(quantity, step_size) * step_size

\* ----------------------------------------------------------- data model
NewPosition(oid, side, qty) ==
    [entry_order_id |-> oid, side |-> side, quantity |-> qty,
     entry_filled |-> FALSE, tp_sl_placed |-> FALSE,
     tp_algo_id |-> NoId, sl_algo_id |-> NoId,
     closed |-> FALSE, close_reason |-> "",
     current_tp_pct |-> StrongTp,
     evaluated_2h |-> FALSE, evaluated_12h |-> FALSE,
     strength |-> "unknown"]

\* Active with a fault: the closed flag is not looked at.
EveryPosition == 1..Len(positions)

Active == {i \in 1..Len(positions) : ~positions[i].closed}

TrackedId(p, kind) == IF kind = TP THEN p.tp_algo_id ELSE p.sl_algo_id

\* SetTrackedId with a fault: the id is written to tp_algo_id whatever the kind.
SetTpId(p, kind, id) == [p EXCEPT !.tp_algo_id = id]

SetTrackedId(p, kind, id) ==
    IF kind = TP THEN [p EXCEPT !.tp_algo_id = id] ELSE [p EXCEPT !.sl_algo_id = id]

TriggerOf(p, kind) == IF kind = TP THEN p.current_tp_pct ELSE SlPct

\* ------------------------------------------------------------ the exchange
Signed(side, qty) == IF side = "BUY" THEN qty ELSE -qty

\* Whether an order of `qty` on `side` only reduces the position `amt`.
Reduces(amt, side, qty) ==
    \/ amt > 0 /\ side = "SELL" /\ qty <= amt
    \/ amt < 0 /\ side = "BUY" /\ qty <= -amt

\* The exchange's answer to a market order.  `fault` is a rejection for a reason
\* the monitor does not see (margin level, position mode, other open orders);
\* "none" lets the order through to the exchange's own rules.
MarketOrder(amt, side, qty, reduceOnly, fault) ==
    IF fault # "none" THEN [res |-> fault, amt |-> amt]
    ELSE IF qty <= 0 \/ qty % StepSize # 0 THEN [res |-> "error", amt |-> amt]
    ELSE IF reduceOnly /\ ~Reduces(amt, side, qty)
         THEN [res |-> "reduce_only_rejected", amt |-> amt]
    ELSE [res |-> "ok", amt |-> amt + Signed(side, qty)]

\* The ids the exchange gives to n new orders: ids are opaque to the program, so
\* an id that neither an open order nor a tracked position still carries is new.
RECURSIVE NewIds(_, _)
NewIds(taken, n) ==
    IF n = 0 THEN <<>>
    ELSE LET x == CHOOSE m \in 1..(Cardinality(taken) + 1) :
                      m \notin taken /\ \A j \in 1..(m - 1) : j \in taken
         IN  <<x>> \o NewIds(taken \cup {x}, n - 1)

\* A submitted conditional order.  A request that succeeded on the exchange but
\* timed out is sent again by the client: `copies` orders are created, and the
\* id the caller gets is that of the last one, whose response arrived.
PlaceAlgo(orders, taken, type, trigger, copies) ==
    LET ids == NewIds(taken \cup Ids(orders), copies)
    IN  [orders |-> orders \o [k \in 1..copies |->
                                  [id |-> ids[k], type |-> type, trigger |-> trigger]],
         id |-> ids[copies]]

\* ------------------------------------------------- protective-order placement
\* RePlaceSingleOrder with a fault: the guard returns on an open order without
\* writing its id to the position.
RePlaceUntracked(p, kind, orders, taken, copies) ==
    LET existing_orders == OfType(orders, kind)
    IN  IF existing_orders # <<>>
        THEN [pos |-> p, orders |-> Without(orders, Ids(Tail(existing_orders))),
              how |-> "adopted", had |-> Len(existing_orders)]
        ELSE LET placed == PlaceAlgo(orders, taken \cup {p.tp_algo_id, p.sl_algo_id},
                                     kind, TriggerOf(p, kind), copies)
             IN  [pos |-> SetTrackedId(p, kind, placed.id),
                  orders |-> placed.orders,
                  how |-> "placed", had |-> 0]

\* RePlaceSingleOrder with a fault: the submission without the guard before it.
RePlaceUnguarded(p, kind, orders, taken, copies) ==
    LET placed == PlaceAlgo(orders, taken \cup {p.tp_algo_id, p.sl_algo_id},
                            kind, TriggerOf(p, kind), copies)
    IN  [pos |-> SetTrackedId(p, kind, placed.id), orders |-> placed.orders,
         how |-> "placed", had |-> Len(OfType(orders, kind))]

\* _re_place_single_order: the idempotency guard, then the submission.
RePlaceSingleOrder(p, kind, orders, taken, copies) ==
    LET existing_orders == OfType(orders, kind)
    IN  IF existing_orders # <<>>
        THEN [pos |-> SetTrackedId(p, kind, existing_orders[1].id),
              orders |-> Without(orders, Ids(Tail(existing_orders))),
              how |-> "adopted", had |-> Len(existing_orders)]
        ELSE LET placed == PlaceAlgo(orders, taken \cup {p.tp_algo_id, p.sl_algo_id},
                                     kind, TriggerOf(p, kind), copies)
             IN  [pos |-> SetTrackedId(p, kind, placed.id),
                  orders |-> placed.orders,
                  how |-> "placed", had |-> 0]

\* The executor after the fill is confirmed: a take-profit and a stop-loss.
PlaceProtection(p, orders, taken, cTp, cSl) ==
    LET tp == RePlaceSingleOrder([p EXCEPT !.entry_filled = TRUE], TP, orders, taken, cTp)
        sl == RePlaceSingleOrder(tp.pos, SL, tp.orders, taken, cSl)
    IN  [pos |-> [sl.pos EXCEPT !.tp_sl_placed = TRUE],
         orders |-> sl.orders, tp |-> tp.how, sl |-> sl.how,
         tpHad |-> tp.had, slHad |-> sl.had]

\* ------------------------------------------------------------ _check_position
\* CheckOrder with a fault: a tracked id that left the open list counts as a
\* trigger, the exchange's position amount is not asked for.
CheckOrderUnchecked(p, kind, algo_ids, orders, taken, amt, copies) ==
    LET sibling == IF kind = TP THEN p.sl_algo_id ELSE p.tp_algo_id
        still_open == TrackedId(p, kind) # NoId /\ TrackedId(p, kind) \in algo_ids
    IN  IF p.closed \/ TrackedId(p, kind) = NoId \/ still_open
        THEN [pos |-> p, orders |-> orders, how |-> "open", had |-> 0]
        ELSE [pos |-> [p EXCEPT !.closed = TRUE,
                                !.close_reason = IF kind = TP THEN "tp_triggered"
                                                 ELSE "sl_triggered"],
              orders |-> Without(orders, {sibling}),
              how |-> "triggered", had |-> 0]

\* CheckOrder with a fault: after a trigger the sibling order is left open.
CheckOrderKeepsSibling(p, kind, algo_ids, orders, taken, amt, copies) ==
    LET still_open == TrackedId(p, kind) # NoId /\ TrackedId(p, kind) \in algo_ids
    IN  IF p.closed \/ TrackedId(p, kind) = NoId \/ still_open
        THEN [pos |-> p, orders |-> orders, how |-> "open", had |-> 0]
        ELSE IF amt = 0
        THEN [pos |-> [p EXCEPT !.closed = TRUE,
                                !.close_reason = IF kind = TP THEN "tp_triggered"
                                                 ELSE "sl_triggered"],
              orders |-> orders,
              how |-> "triggered", had |-> 0]
        ELSE RePlaceSingleOrder(p, kind, orders, taken, copies)

\* One protective order of `kind` whose tracked id may have left the open list
\* `algo_ids`: the exchange's position amount tells a trigger from a removal.
CheckOrder(p, kind, algo_ids, orders, taken, amt, copies) ==
    LET sibling == IF kind = TP THEN p.sl_algo_id ELSE p.tp_algo_id
        still_open == TrackedId(p, kind) # NoId /\ TrackedId(p, kind) \in algo_ids
    IN  IF p.closed \/ TrackedId(p, kind) = NoId \/ still_open
        THEN [pos |-> p, orders |-> orders, how |-> "open", had |-> 0]
        ELSE IF amt = 0
        THEN [pos |-> [p EXCEPT !.closed = TRUE,
                                !.close_reason = IF kind = TP THEN "tp_triggered"
                                                 ELSE "sl_triggered"],
              orders |-> Without(orders, {sibling}),
              how |-> "triggered", had |-> 0]
        ELSE RePlaceSingleOrder(p, kind, orders, taken, copies)

CheckPosition(p, orders, taken, amt, cTp, cSl) ==
    LET algo_ids == Ids(orders)
        tp == CheckOrder(p, TP, algo_ids, orders, taken \cup algo_ids, amt, cTp)
        sl == CheckOrder(tp.pos, SL, algo_ids, tp.orders, taken \cup algo_ids, amt, cSl)
    IN  [pos |-> sl.pos, orders |-> sl.orders,
         tp |-> tp.how, sl |-> sl.how, tpHad |-> tp.had, slHad |-> sl.had]

\* ---------------------------------------------------------------- _force_close
\* The position amount after the user has reduced it by `by`.
Reduced(amt, by) ==
    IF Abs(amt) < by THEN amt ELSE IF amt > 0 THEN amt - by ELSE amt + by

\* SplitClose with a fault: the second batch is what the first one left of the
\* quantity, not what the exchange reports.
SplitCloseLocal(amt, close_side, quantity, f2, f3, reduced) ==
    LET first_batch == PyRound(quantity, 2 * StepSize) * StepSize
        o2 == MarketOrder(amt, close_side, first_batch, FALSE, f2)
        actual == Reduced(o2.amt, reduced)
        second_batch == RoundQty(quantity - first_batch, StepSize)
        o3 == MarketOrder(actual, close_side, second_batch, FALSE, f3)
    IN  IF o2.res # "ok"
        THEN [path |-> "split", ok |-> FALSE, amt |-> o2.amt, first |-> "",
              answers |-> <<o2.res>>,
              calls |-> <<Call("place_order", 1, close_side, first_batch)>>]
        ELSE [path |-> "split", ok |-> o3.res = "ok", amt |-> o3.amt, first |-> "",
              answers |-> <<o2.res, o3.res>>,
              calls |-> <<Call("place_order", 1, close_side, first_batch),
                          Call("get_position_risk", 0, "", Abs(actual)),
                          Call("place_order", 2, close_side, second_batch)>>]

\* The split close after "Margin is insufficient": half, wait, re-read, the rest.
\* `reduced` is what the user takes off the position during the wait.
SplitClose(amt, close_side, quantity, f2, f3, reduced) ==
    LET first_batch == PyRound(quantity, 2 * StepSize) * StepSize
        o2 == MarketOrder(amt, close_side, first_batch, FALSE, f2)
        actual == Reduced(o2.amt, reduced)
        remaining == Abs(actual)
        second_batch == RoundQty(remaining, StepSize)
        o3 == MarketOrder(actual, close_side, second_batch, FALSE, f3)
    IN  IF o2.res # "ok"
        THEN [path |-> "split", ok |-> FALSE, amt |-> o2.amt, first |-> "",
              answers |-> <<o2.res>>,
              calls |-> <<Call("place_order", 1, close_side, first_batch)>>]
        ELSE [path |-> "split", ok |-> o3.res = "ok", amt |-> o3.amt, first |-> "",
              answers |-> <<o2.res, o3.res>>,
              calls |-> <<Call("place_order", 1, close_side, first_batch),
                          Call("get_position_risk", 0, "", remaining),
                          Call("place_order", 2, close_side, second_batch)>>]

\* CloseOrder with a fault: a rejected reduce-only order is not followed up.
CloseOrderNoRetry(amt, close_side, quantity, f1, f2, f3, reduced) ==
    LET o1 == MarketOrder(amt, close_side, quantity, TRUE, f1)
        first == <<Call("place_market_close", 0, close_side, quantity)>>
        split == SplitClose(amt, close_side, quantity, f2, f3, reduced)
    IN  CASE o1.res = "ok" ->
               [path |-> "reduce_only", ok |-> TRUE, amt |-> o1.amt, calls |-> first,
                first |-> o1.res, answers |-> <<o1.res>>]
          [] o1.res = "margin_insufficient" ->
               [split EXCEPT !.calls = first \o split.calls, !.first = o1.res,
                             !.answers = <<o1.res>> \o split.answers]
          [] OTHER ->
               [path |-> "rejected", ok |-> FALSE, amt |-> o1.amt, calls |-> first,
                first |-> o1.res, answers |-> <<o1.res>>]

\* The reduce-only market order and what follows its rejection.
CloseOrder(amt, close_side, quantity, f1, f2, f3, reduced) ==
    LET o1 == MarketOrder(amt, close_side, quantity, TRUE, f1)
        first == <<Call("place_market_close", 0, close_side, quantity)>>
        retry == MarketOrder(amt, close_side, quantity, FALSE, f2)
        split == SplitClose(amt, close_side, quantity, f2, f3, reduced)
    IN  CASE o1.res = "ok" ->
               [path |-> "reduce_only", ok |-> TRUE, amt |-> o1.amt, calls |-> first,
                first |-> o1.res, answers |-> <<o1.res>>]
          [] o1.res = "reduce_only_rejected" ->
               [path |-> "plain_retry", ok |-> retry.res = "ok", amt |-> retry.amt,
                calls |-> first \o <<Call("place_order", 0, close_side, quantity)>>,
                first |-> o1.res, answers |-> <<o1.res, retry.res>>]
          [] o1.res = "margin_insufficient" ->
               [split EXCEPT !.calls = first \o split.calls, !.first = o1.res,
                             !.answers = <<o1.res>> \o split.answers]
          [] OTHER ->
               [path |-> "rejected", ok |-> FALSE, amt |-> o1.amt, calls |-> first,
                first |-> o1.res, answers |-> <<o1.res>>]

\* CloseAmount with a fault: the amount of the local bookkeeping.
CloseAmountLocal(p, amt) == IF p.side = "SHORT" THEN -p.quantity ELSE p.quantity

\* The position amount and sign the close order is computed from.
CloseAmount(p, amt) == amt

\* ForceClose with a fault: the position is read before the orders are cancelled.
ForceCloseReadFirst(p, orders, amt, reason, f1, f2, f3, reduced) ==
    LET cancelled == <<Call("get_open_algo_orders", 0, "", 0)>> \o CancelCalls(orders)
        actual_amt == CloseAmount(p, amt)
        quantity == RoundQty(Abs(actual_amt), StepSize)
        close_side == IF actual_amt > 0 THEN "SELL" ELSE "BUY"
        out == CloseOrder(amt, close_side, quantity, f1, f2, f3, reduced)
    IN  [pos |-> IF out.ok THEN [p EXCEPT !.closed = TRUE, !.close_reason = reason] ELSE p,
         orders |-> <<>>,
         amt |-> out.amt,
         calls |-> <<Call("get_position_risk", 0, "", Abs(amt))>> \o cancelled \o out.calls
                   \o (IF out.ok THEN <<>> ELSE <<Call("send_critical_alert", 0, "", 0)>>),
         path |-> out.path, first |-> out.first, ok |-> out.ok, answers |-> out.answers]

\* ForceClose with a fault: a close that failed raises no alert.
ForceCloseSilent(p, orders, amt, reason, f1, f2, f3, reduced) ==
    LET cancelled == <<Call("get_open_algo_orders", 0, "", 0)>> \o CancelCalls(orders)
        actual_amt == CloseAmount(p, amt)
        quantity == RoundQty(Abs(actual_amt), StepSize)
        close_side == IF actual_amt > 0 THEN "SELL" ELSE "BUY"
        out == CloseOrder(amt, close_side, quantity, f1, f2, f3, reduced)
    IN  [pos |-> IF out.ok THEN [p EXCEPT !.closed = TRUE, !.close_reason = reason] ELSE p,
         orders |-> <<>>,
         amt |-> out.amt,
         calls |-> cancelled \o <<Call("get_position_risk", 0, "", Abs(amt))>> \o out.calls,
         path |-> out.path, first |-> out.first, ok |-> out.ok, answers |-> out.answers]

ForceClose(p, orders, amt, reason, f1, f2, f3, reduced) ==
    LET cancelled == <<Call("get_open_algo_orders", 0, "", 0)>> \o CancelCalls(orders)
        actual_amt == CloseAmount(p, amt)
        quantity == RoundQty(Abs(actual_amt), StepSize)
        is_long == actual_amt > 0
        close_side == IF is_long THEN "SELL" ELSE "BUY"
        out == CloseOrder(amt, close_side, quantity, f1, f2, f3, reduced)
    IN  [pos |-> IF out.ok THEN [p EXCEPT !.closed = TRUE, !.close_reason = reason] ELSE p,
         orders |-> <<>>,
         amt |-> out.amt,
         calls |-> cancelled \o <<Call("get_position_risk", 0, "", Abs(amt))>> \o out.calls
                   \o (IF out.ok THEN <<>> ELSE <<Call("send_critical_alert", 0, "", 0)>>),
         path |-> out.path, first |-> out.first, ok |-> out.ok, answers |-> out.answers]

\* --------------------------------------------------------- policy evaluation
TpOf(strength) ==
    IF strength = "strong" THEN StrongTp ELSE IF strength = "medium" THEN MediumTp ELSE WeakTp

Hold == [action |-> "hold", new_tp_pct |-> 0, new_strength |-> "", reason |-> "", mark |-> 0]

\* evaluate_position without the consecutive-surge protection.
EvaluatePositionNoProtection(p, hours_held, s2h, drop60, consecutive) ==
    IF hours_held >= 3
    THEN [Hold EXCEPT !.action = "close", !.reason = "timed_out"]
    ELSE IF hours_held >= 1 /\ ~p.evaluated_2h
    THEN [Hold EXCEPT !.action = "adjust_tp", !.new_tp_pct = TpOf(s2h),
                      !.new_strength = s2h, !.mark = 2]
    ELSE IF hours_held >= 2 /\ ~p.evaluated_12h
    THEN IF drop60
         THEN [Hold EXCEPT !.action = "adjust_tp", !.new_tp_pct = StrongTp,
                           !.new_strength = "strong", !.mark = 12]
         ELSE [Hold EXCEPT !.action = "adjust_tp", !.new_tp_pct = WeakTp,
                           !.new_strength = "weak", !.mark = 12]
    ELSE Hold

\* evaluate_position with the maximum hold time tested after the checkpoints.
EvaluatePositionTimeoutLast(p, hours_held, s2h, drop60, consecutive) ==
    IF hours_held >= 1 /\ ~p.evaluated_2h
    THEN [Hold EXCEPT !.action = "adjust_tp", !.new_tp_pct = TpOf(s2h),
                      !.new_strength = s2h, !.mark = 2]
    ELSE IF hours_held >= 2 /\ ~p.evaluated_12h
    THEN IF drop60
         THEN [Hold EXCEPT !.action = "adjust_tp", !.new_tp_pct = StrongTp,
                           !.new_strength = "strong", !.mark = 12]
         ELSE IF consecutive
         THEN [Hold EXCEPT !.mark = 12]
         ELSE [Hold EXCEPT !.action = "adjust_tp", !.new_tp_pct = WeakTp,
                           !.new_strength = "weak", !.mark = 12]
    ELSE IF hours_held >= 3
    THEN [Hold EXCEPT !.action = "close", !.reason = "timed_out"]
    ELSE Hold

\* Strategy.evaluate_position.  `hours_held` is the hold time in stages: 1 from
\* 2 h, 2 from 12 h, 3 from the maximum hold time.  `s2h` is the strength the 2 h
\* price movement shows, `drop60` whether the drop ratio is >= 60%, `consecutive`
\* the result of the consecutive-surge check.
EvaluatePosition(p, hours_held, s2h, drop60, consecutive) ==
    IF hours_held >= 3
    THEN [Hold EXCEPT !.action = "close", !.reason = "timed_out"]
    ELSE IF hours_held >= 1 /\ ~p.evaluated_2h
    THEN [Hold EXCEPT !.action = "adjust_tp", !.new_tp_pct = TpOf(s2h),
                      !.new_strength = s2h, !.mark = 2]
    ELSE IF hours_held >= 2 /\ ~p.evaluated_12h
    THEN IF drop60
         THEN [Hold EXCEPT !.action = "adjust_tp", !.new_tp_pct = StrongTp,
                           !.new_strength = "strong", !.mark = 12]
         ELSE IF consecutive
         THEN [Hold EXCEPT !.mark = 12]
         ELSE [Hold EXCEPT !.action = "adjust_tp", !.new_tp_pct = WeakTp,
                           !.new_strength = "weak", !.mark = 12]
    ELSE Hold

\* An evaluation that leaves the evaluated flags alone.
MarkedNever(p, a) ==
    IF a.new_strength # "" THEN [p EXCEPT !.strength = a.new_strength] ELSE p

Marked(p, a) ==
    LET q == IF a.new_strength # "" THEN [p EXCEPT !.strength = a.new_strength] ELSE p
    IN  IF a.mark = 12 THEN [q EXCEPT !.evaluated_12h = TRUE]
        ELSE IF a.mark = 2 THEN [q EXCEPT !.evaluated_2h = TRUE]
        ELSE q

\* adjust_tp: cancel the tracked take-profit, place one at the new percentage.
AdjustTp(p, orders, taken, new_tp_pct, copies) ==
    RePlaceSingleOrder([p EXCEPT !.current_tp_pct = new_tp_pct], TP,
                       Without(orders, {p.tp_algo_id}), taken \cup Ids(orders), copies)

\* ------------------------------------------------------- the exchange client
\* BinanceFuturesClient._request.  A caller's request is idle, about to send
\* ("try"), asleep between two attempts or done.  `attempt` is the loop
\* variable, `slept` the waits so far in seconds, `sent` the requests that
\* went to the network, `resp` the last answer and `result` what the caller
\* got: the response or the exception raised.  The clock counts ticks; how
\* many ticks a wait takes is left open.
Callers == 1..MaxCallers

Idle == [state |-> "idle", attempt |-> 0, slept |-> <<>>, sent |-> 0,
         resp |-> "none", result |-> "none"]

\* What the network or the exchange answers: a response, a network error
\* (ConnectError, TimeoutException, ReadError), the rate-limit ban -1003 whose
\* message names the time the ban ends, or another rejection.
Responses(t) ==
    {[kind |-> k, until |-> 0] : k \in {"ok", "network", "rejected"}}
        \cup {[kind |-> "ban", until |-> t + d] : d \in 1..MaxBan}

\* Blocked with a fault: the ban is not looked at.
BlockedNever(t, until) == FALSE

\* The circuit breaker's test at the head of _request.
Blocked(t, until) == t < until

\* The head of _request: fail fast inside the ban window, else enter the loop.
Begin(t, until) ==
    IF Blocked(t, until)
    THEN [Idle EXCEPT !.state = "done", !.result = "BinanceAPIError(-1003)"]
    ELSE [Idle EXCEPT !.state = "try"]

\* Retried with a fault: the ban is taken for a network error.
RetriedBan(kind) == kind \in {"network", "ban"}

\* The answers the retry loop catches.
Retried(kind) == kind = "network"

\* One pass of the retry loop of request r, answered by resp.
Attempt(r, resp) ==
    LET q == [r EXCEPT !.sent = @ + 1, !.resp = resp.kind]
    IN  IF resp.kind = "ok" THEN [q EXCEPT !.state = "done", !.result = "ok"]
        ELSE IF Retried(resp.kind)
        THEN IF r.attempt < MAX_RETRIES - 1
             THEN [q EXCEPT !.state = "sleep",
                            !.slept = Append(@, RETRY_BACKOFF[r.attempt + 1])]
             ELSE [q EXCEPT !.state = "done", !.result = "BinanceConnectionError"]
        ELSE [q EXCEPT !.state = "done",
                       !.result = IF resp.kind = "ban" THEN "BinanceAPIError(-1003)"
                                  ELSE "BinanceAPIError"]

\* BanUntil with a fault: every rejection by the exchange sets the ban.
BanUntilAnyError(until, resp, t) ==
    IF resp.kind \in {"ban", "rejected"} THEN t + 1 ELSE until

\* _ban_until after the answer resp.
BanUntil(until, resp, t) == IF resp.kind = "ban" THEN resp.until ELSE until

\* ------------------------------------------------ serialized order operations
\* The tasks that change a symbol's orders: the monitor cycle (timeout close,
\* re-placement, sweep), the fill notification of the stream (protective
\* orders) and the close command.
Tasks == {"cycle", "stream", "command"}

Symbols == 1..MaxSymbols

NoTask == "none"

OpsOf(t) ==
    IF t = "cycle" THEN {"force_close", "re_place", "cancel"}
    ELSE IF t = "stream" THEN {"place_protection"}
    ELSE {"force_close"}

Resting == [pc |-> "idle", op |-> "none", symbol |-> 0]

\* Free with a fault: the lock is not looked at.
FreeAlways(h, sym) == TRUE

\* Whether the lock of the symbol can be taken.
Free(h, sym) == h[sym] = NoTask

\* ----------------------------------------------------------- the entry flow
Workers == 1..MaxWorkers

NoWorker == 0

Waiting == [pc |-> "idle", symbol |-> 0]

\* EntryFree with a fault: the entry lock is not looked at.
EntryFreeAlways(l) == TRUE

\* Whether the entry lock can be taken.
EntryFree(l) == l = NoWorker

\* The basic check of the entry flow: positions < max, entries today < max,
\* no position in the symbol yet.
BasicCheck(held, today, symbol) ==
    /\ Cardinality(held) < max_positions
    /\ today < max_entries_per_day
    /\ symbol \notin held

\* No computation has been set up.
NoCalc == [op |-> "none"]

\* The state after construction, less the inputs of a computation.
Start ==
    /\ positions = <<>>
    /\ closedLog = <<>>
    /\ entries = 0
    /\ exAmt = 0
    /\ exAlgo = <<>>
    /\ exEntry = "none"
    /\ phase = "sweep"
    /\ last = NoEvent
    /\ calls = <<>>
    /\ now = 0
    /\ ban_until = 0
    /\ req = [c \in Callers |-> Idle]
    /\ poll = FALSE
    /\ task = [t \in Tasks |-> Resting]
    /\ holder = [sym \in Symbols |-> NoTask]
    /\ worker = [w \in Workers |-> Waiting]
    /\ entry_lock = NoWorker
    /\ opened = {}
    /\ entries_today = 0
    /\ running = TRUE
    /\ loop = "head"
    /\ stopped = "no"

Init ==
    /\ Start
    /\ calc = NoCalc

\* ------------------------------------------------------- order identities
\* The program compares order ids only for equality, and the exchange never
\* issues an id twice.  A state is therefore kept up to the renaming of ids: an
\* open order is named by its place in the open list, take-profit orders ahead
\* of stop-loss orders and each kind in the order of creation, and an id whose
\* order has left the list is GoneId.
Canon(ps, orders) ==
    LET open == OfType(orders, TP) \o OfType(orders, SL)
        Name(x) == IF x = NoId THEN NoId
                   ELSE IF \E k \in 1..Len(open) : open[k].id = x
                   THEN CHOOSE k \in 1..Len(open) : open[k].id = x
                   ELSE GoneId
    IN  [positions |-> [i \in 1..Len(ps) |->
                           [ps[i] EXCEPT !.tp_algo_id = Name(@), !.sl_algo_id = Name(@)]],
         orders |-> [k \in 1..Len(open) |-> [open[k] EXCEPT !.id = k]]]

\* ------------------------------------------------------------- environment
Env == /\ last' = NoEvent
       /\ calls' = <<>>

\* The exchange fills the entry order.
EntryFills ==
    /\ exEntry = "open"
    /\ Active # {}
    /\ LET p == positions[CHOOSE i \in Active : ~positions[i].entry_filled]
       IN  exAmt' = exAmt + Signed(IF p.side = "SHORT" THEN "SELL" ELSE "BUY", p.quantity)
    /\ exEntry' = "filled"
    /\ Env
    /\ UNCHANGED <<positions, closedLog, entries, exAlgo, phase>>

\* The user reduces the position by one lot step on the exchange.
ManualReduce ==
    /\ exAmt # 0
    /\ exAmt' = IF exAmt > 0 THEN exAmt - StepSize ELSE exAmt + StepSize
    /\ Env
    /\ UNCHANGED <<positions, closedLog, entries, exAlgo, exEntry, phase>>

\* The user cancels a conditional order on the exchange.
ExternalCancel ==
    \E k \in 1..Len(exAlgo) :
        /\ LET c == Canon(positions, Without(exAlgo, {exAlgo[k].id}))
           IN  positions' = c.positions /\ exAlgo' = c.orders
        /\ Env
        /\ UNCHANGED <<closedLog, entries, exAmt, exEntry, phase>>

\* A conditional order triggers: it closes the position and leaves the open list.
Trigger ==
    \E k \in 1..Len(exAlgo) :
        /\ exAmt # 0
        /\ exAmt' = 0
        /\ LET c == Canon(positions, Without(exAlgo, {exAlgo[k].id}))
           IN  positions' = c.positions /\ exAlgo' = c.orders
        /\ Env
        /\ UNCHANGED <<closedLog, entries, exEntry, phase>>

\* ------------------------------------------------------------------ entry
\* MayEnter with a fault: the check for a position already held is left out.
MayEnterAlways == TRUE

\* Whether the entry flow may register a position for the symbol.
MayEnter == Active = {}

\* An accepted signal: the entry order is submitted and a Pending position registered.
SubmitEntry ==
    \E side \in {"SHORT"} :
        /\ entries < MaxPositions
        /\ MayEnter
        /\ exEntry # "open"
        /\ positions' = Append(positions, NewPosition(entries + 1, side, EntryQty))
        /\ entries' = entries + 1
        /\ exEntry' = "open"
        /\ last' = [NoEvent EXCEPT !.op = "entry", !.pos = entries + 1]
        /\ calls' = <<>>
        /\ UNCHANGED <<closedLog, exAmt, exAlgo, phase>>

\* ------------------------------------------------------- the monitor cycle
\* The ids the tracked positions other than i carry.
TakenBut(i) ==
    UNION {{positions[j].tp_algo_id, positions[j].sl_algo_id} :
              j \in (1..Len(positions)) \ {i}}

\* KeptBySweep with a fault: of each kind the last order stays.
KeptLast(orders) ==
    IF Active = {} THEN {}
    ELSE {OfType(orders, t)[Len(OfType(orders, t))].id :
             t \in {u \in {TP, SL} : OfType(orders, u) # <<>>}}

\* _cancel_orphan_orders: of the take-profit and of the stop-loss orders of a
\* held symbol the first stays; the orders of a symbol without a position go.
KeptBySweep(orders) ==
    IF Active = {} THEN {}
    ELSE {OfType(orders, t)[1].id : t \in {u \in {TP, SL} : OfType(orders, u) # <<>>}}

\* The closed positions leave the tracked set for the store.
Purged(ps) == SelectSeq(ps, LAMBDA p : ~p.closed)

Recorded(ps) ==
    LET done == SelectSeq(ps, LAMBDA p : p.closed)
    IN  [k \in 1..Len(done) |-> done[k].entry_order_id]

\* The start of a cycle: the closed positions are dropped, the duplicates swept.
DuplicateSweep ==
    /\ phase = "sweep"
    /\ LET extra == Without(exAlgo, KeptBySweep(exAlgo))
           c == Canon(Purged(positions), Without(exAlgo, Ids(extra)))
       IN  /\ positions' = c.positions
           /\ exAlgo' = c.orders
           /\ calls' = <<>>
           /\ last' = [NoEvent EXCEPT !.op = "sweep", !.swept = Len(extra)]
    /\ closedLog' = closedLog \o Recorded(positions)
    /\ phase' = "check"
    /\ UNCHANGED <<entries, exAmt, exEntry>>

\* FillConfirmed with a fault: the entry order is taken for filled unseen.
FillConfirmedAlways(entry) == TRUE

\* Whether the exchange reports the entry order filled.
FillConfirmed(entry) == entry = "filled"

\* What the poll of position p can come to, over the copies a submission leaves.
CheckOutcomes(i) ==
    LET p == positions[i]
    IN  IF ~p.entry_filled
        THEN IF FillConfirmed(exEntry)
             THEN {PlaceProtection(p, exAlgo, TakenBut(i), cTp, cSl) :
                      cTp \in 1..MaxCopies, cSl \in 1..MaxCopies}
             ELSE {[pos |-> p, orders |-> exAlgo, tp |-> "none", sl |-> "none",
                    tpHad |-> 0, slHad |-> 0]}
        ELSE {CheckPosition(p, exAlgo, TakenBut(i), exAmt, cTp, cSl) :
                 cTp \in 1..MaxCopies, cSl \in 1..MaxCopies}

\* The poll of a position: the fill of its entry, then its protective orders.
Poll ==
    IF Active = {}
    THEN /\ last' = [NoEvent EXCEPT !.op = "check"]
         /\ calls' = <<>>
         /\ UNCHANGED <<positions, closedLog, entries, exAmt, exAlgo, exEntry>>
    ELSE \E i \in Active :
           \E r \in CheckOutcomes(i) :
               /\ LET c == Canon([positions EXCEPT ![i] = r.pos], r.orders)
                  IN  positions' = c.positions /\ exAlgo' = c.orders
               /\ calls' = <<>>
               /\ last' = [NoEvent EXCEPT
                             !.op = "check", !.pos = positions[i].entry_order_id,
                             !.amt = exAmt,
                             !.tpGone = positions[i].tp_algo_id \notin Ids(exAlgo) \cup {NoId},
                             !.slGone = positions[i].sl_algo_id \notin Ids(exAlgo) \cup {NoId},
                             !.tp = r.tp, !.sl = r.sl,
                             !.tpHad = r.tpHad, !.slHad = r.slHad]
               /\ UNCHANGED <<closedLog, entries, exAmt, exEntry>>

\* The poll as a step of the monitor cycle.
CheckAll ==
    /\ phase = "check"
    /\ phase' = "evaluate"
    /\ Poll

Faults1 == {"none", "reduce_only_rejected", "margin_insufficient", "error"}
Faults2 == {"none", "margin_insufficient", "error"}

\* A forced close of position i, for `reason`.
DoForceClose(i, reason) ==
    \E r \in {ForceClose(positions[i], exAlgo, exAmt, reason, f1, f2, f3, reduced) :
                 f1 \in Faults1, f2 \in Faults2, f3 \in Faults2,
                 reduced \in {0, StepSize}} :
        /\ LET c == Canon([positions EXCEPT ![i] = r.pos], r.orders)
           IN  positions' = c.positions /\ exAlgo' = c.orders
        /\ exAmt' = r.amt
        /\ calls' = r.calls
        /\ last' = [NoEvent EXCEPT !.op = "force_close",
                                   !.pos = positions[i].entry_order_id, !.amt = exAmt,
                                   !.first = r.first, !.path = r.path,
                                   !.reason = reason, !.alert = ~r.ok,
                                   !.answers = r.answers]
        /\ UNCHANGED <<closedLog, entries, exEntry>>

\* The actions the policy can return for p, over what the market data can show.
Actions(p) ==
    {EvaluatePosition(p, hours_held, s2h, drop60, consecutive) :
        hours_held \in 0..3, s2h \in {"strong", "medium", "weak"},
        drop60 \in BOOLEAN, consecutive \in BOOLEAN}

EvaluateAll ==
    /\ phase = "evaluate"
    /\ phase' = "sweep"
    /\ IF {i \in Active : positions[i].tp_sl_placed} = {}
       THEN /\ last' = [NoEvent EXCEPT !.op = "evaluate"]
            /\ calls' = <<>>
            /\ UNCHANGED <<positions, closedLog, entries, exAmt, exAlgo, exEntry>>
       ELSE \E i \in {j \in Active : positions[j].tp_sl_placed} :
              \E a \in Actions(positions[i]) :
                  CASE a.action = "close" -> DoForceClose(i, a.reason)
                    [] a.action = "adjust_tp" ->
                         \E r \in {AdjustTp(Marked(positions[i], a), exAlgo, TakenBut(i),
                                            a.new_tp_pct, c) : c \in 1..MaxCopies} :
                             /\ LET c == Canon([positions EXCEPT ![i] = r.pos], r.orders)
                                IN  positions' = c.positions /\ exAlgo' = c.orders
                             /\ calls' = <<>>
                             /\ last' = [NoEvent EXCEPT !.op = "adjust_tp",
                                            !.pos = positions[i].entry_order_id,
                                            !.tp = r.how, !.tpHad = r.had]
                             /\ UNCHANGED <<closedLog, entries, exAmt, exEntry>>
                    [] OTHER ->
                         /\ positions' = [positions EXCEPT ![i] = Marked(positions[i], a)]
                         /\ last' = [NoEvent EXCEPT !.op = "evaluate",
                                                    !.pos = positions[i].entry_order_id]
                         /\ calls' = <<>>
                         /\ UNCHANGED <<closedLog, entries, exAmt, exAlgo, exEntry>>

\* The operator's /close command: a forced close outside the cycle.
CloseCommand ==
    \E i \in Active :
        /\ positions[i].entry_filled
        /\ DoForceClose(i, "force_closed")
        /\ UNCHANGED phase

Next ==
    \/ SubmitEntry /\ UNCHANGED exceptMonitor
    \/ EntryFills /\ UNCHANGED exceptMonitor
    \/ ManualReduce /\ UNCHANGED exceptMonitor
    \/ ExternalCancel /\ UNCHANGED exceptMonitor
    \/ Trigger /\ UNCHANGED exceptMonitor
    \/ DuplicateSweep /\ UNCHANGED exceptMonitor
    \/ CheckAll /\ UNCHANGED exceptMonitor
    \/ EvaluateAll /\ UNCHANGED exceptMonitor
    \/ CloseCommand /\ UNCHANGED exceptMonitor

Spec == Init /\ [][Next]_vars

\* ------------------------------------------------------ the realtime stream
\* OnStreamEvent with a fault: the handler books the event itself.
OnStreamEventDirect(ps, kind) ==
    [positions |->
        [i \in 1..Len(ps) |->
            IF ps[i].closed THEN ps[i]
            ELSE IF kind = "fill" THEN [ps[i] EXCEPT !.entry_filled = TRUE]
            ELSE IF kind = "trigger"
            THEN [ps[i] EXCEPT !.closed = TRUE, !.close_reason = "tp_triggered"]
            ELSE [ps[i] EXCEPT !.tp_algo_id = NoId]],
     poll |-> TRUE]

\* The handler of a stream event (fill, cancel, trigger): it schedules a poll
\* of the exchange and leaves the tracked positions as they are.
OnStreamEvent(ps, kind) == [positions |-> ps, poll |-> TRUE]

\* The stream delivers an event.  Delivery is at least once and can be late:
\* an event can arrive whatever the exchange shows by then.
StreamEvent ==
    \E kind \in {"fill", "cancel", "trigger"} :
        LET r == OnStreamEvent(positions, kind)
        IN  /\ positions' = r.positions
            /\ poll' = r.poll
            /\ last' = [NoEvent EXCEPT !.op = "stream", !.path = kind]
            /\ calls' = <<>>
            /\ UNCHANGED <<closedLog, entries, exAmt, exAlgo, exEntry, phase>>

\* The scheduled poll runs, outside the cycle.
StreamPoll ==
    /\ poll
    /\ poll' = FALSE
    /\ Poll
    /\ UNCHANGED phase

\* The monitor with the realtime stream; the user's commands are left out.
StreamNext ==
    \/ SubmitEntry /\ UNCHANGED exceptMonitor
    \/ EntryFills /\ UNCHANGED exceptMonitor
    \/ ExternalCancel /\ UNCHANGED exceptMonitor
    \/ Trigger /\ UNCHANGED exceptMonitor
    \/ DuplicateSweep /\ UNCHANGED exceptMonitor
    \/ CheckAll /\ UNCHANGED exceptMonitor
    \/ EvaluateAll /\ UNCHANGED exceptMonitor
    \/ StreamEvent /\ UNCHANGED exceptStream
    \/ StreamPoll /\ UNCHANGED exceptStream

StreamSpec == Init /\ [][StreamNext]_vars

\* ------------------------------------------------- the client's requests
\* A caller calls _request.
Request(c) ==
    /\ req[c].state \in {"idle", "done"}
    /\ req' = [req EXCEPT ![c] = Begin(now, ban_until)]
    /\ UNCHANGED <<now, ban_until>>

\* A request is sent and answered.
Send(c) ==
    /\ req[c].state = "try"
    /\ \E resp \in Responses(now) :
           /\ req' = [req EXCEPT ![c] = Attempt(req[c], resp)]
           /\ ban_until' = BanUntil(ban_until, resp, now)
    /\ UNCHANGED now

\* The wait between two attempts is over.
Wake(c) ==
    /\ req[c].state = "sleep"
    /\ req' = [req EXCEPT ![c].state = "try", ![c].attempt = @ + 1]
    /\ UNCHANGED <<now, ban_until>>

Tick ==
    /\ now < MaxNow
    /\ now' = now + 1
    /\ UNCHANGED <<ban_until, req>>

ClientNext ==
    \/ \E c \in Callers : Request(c) /\ UNCHANGED exceptClient
    \/ \E c \in Callers : Send(c) /\ UNCHANGED exceptClient
    \/ \E c \in Callers : Wake(c) /\ UNCHANGED exceptClient
    \/ Tick /\ UNCHANGED exceptClient

ClientSpec == Init /\ [][ClientNext]_vars

\* ------------------------------------- order operations, one per symbol
\* A task comes to an operation on a symbol's orders.
Want(t) ==
    /\ task[t].pc = "idle"
    /\ \E op \in OpsOf(t), sym \in Symbols :
           task' = [task EXCEPT ![t] = [pc |-> "waiting", op |-> op, symbol |-> sym]]
    /\ UNCHANGED holder

\* The task takes the symbol's lock and sends the first request.
Acquire(t) ==
    /\ task[t].pc = "waiting"
    /\ Free(holder, task[t].symbol)
    /\ holder' = [holder EXCEPT ![task[t].symbol] = t]
    /\ task' = [task EXCEPT ![t].pc = "submitting"]

\* The exchange has answered; the task reads back what it did.
Confirm(t) ==
    /\ task[t].pc = "submitting"
    /\ task' = [task EXCEPT ![t].pc = "confirming"]
    /\ UNCHANGED holder

\* The operation is over and the lock released.
Release(t) ==
    /\ task[t].pc = "confirming"
    /\ task' = [task EXCEPT ![t] = Resting]
    /\ holder' = [holder EXCEPT ![task[t].symbol] = NoTask]

LockNext ==
    \/ \E t \in Tasks : Want(t) /\ UNCHANGED exceptLock
    \/ \E t \in Tasks : Acquire(t) /\ UNCHANGED exceptLock
    \/ \E t \in Tasks : Confirm(t) /\ UNCHANGED exceptLock
    \/ \E t \in Tasks : Release(t) /\ UNCHANGED exceptLock

LockSpec == Init /\ [][LockNext]_vars

\* ------------------------------------------------ entries, one at a time
\* A signal for a symbol reaches the entry flow.
Signal(w) ==
    /\ worker[w].pc = "idle"
    /\ \E sym \in Symbols : worker' = [worker EXCEPT ![w] = [pc |-> "waiting", symbol |-> sym]]
    /\ UNCHANGED <<entry_lock, opened, entries_today>>

\* Under the entry lock: the basic check.  A signal that passes goes on to the
\* limit order; one that does not is dropped.
Check(w) ==
    /\ worker[w].pc = "waiting"
    /\ EntryFree(entry_lock)
    /\ IF BasicCheck(opened, entries_today, worker[w].symbol)
       THEN /\ worker' = [worker EXCEPT ![w].pc = "submitting"]
            /\ entry_lock' = w
       ELSE /\ worker' = [worker EXCEPT ![w] = Waiting]
            /\ UNCHANGED entry_lock
    /\ UNCHANGED <<opened, entries_today>>

\* The limit order is in: the position is registered, the entry counted and
\* the lock released.
Register(w) ==
    /\ worker[w].pc = "submitting"
    /\ opened' = opened \cup {worker[w].symbol}
    /\ entries_today' = entries_today + 1
    /\ worker' = [worker EXCEPT ![w] = Waiting]
    /\ entry_lock' = NoWorker

\* The monitor closes the position of a symbol.
PositionCloses ==
    /\ \E sym \in opened : opened' = opened \ {sym}
    /\ UNCHANGED <<worker, entry_lock, entries_today>>

\* A new day begins: the count of entries starts again.
NewDay ==
    /\ entries_today > 0
    /\ entries_today' = 0
    /\ UNCHANGED <<worker, entry_lock, opened>>

EntryNext ==
    \/ \E w \in Workers : Signal(w) /\ UNCHANGED exceptEntry
    \/ \E w \in Workers : Check(w) /\ UNCHANGED exceptEntry
    \/ \E w \in Workers : Register(w) /\ UNCHANGED exceptEntry
    \/ PositionCloses /\ UNCHANGED exceptEntry
    \/ NewDay /\ UNCHANGED exceptEntry

EntrySpec == Init /\ [][EntryNext]_vars

\* ------------------------------------------------------------- run_forever
\* `loop` is "head" at the test of the flag, "cycle" inside
\* check_all_positions, "sleep" in the wait for the next cycle and "halted"
\* once the loop is left.  `stopped` follows the cycle that was in flight when
\* the stop was requested: "in_cycle", then "completed" or "aborted"; a stop
\* outside a cycle is "between".
Halts(at, flag) == at = "head" /\ ~flag

\* while running: the flag holds and the cycle begins.
LoopHead ==
    /\ loop = "head"
    /\ running
    /\ loop' = "cycle"
    /\ UNCHANGED <<running, stopped>>
    /\ UNCHANGED monitorVars

\* The flag is down at the test: the loop is left.
Halt ==
    /\ loop # "halted"
    /\ Halts(loop, running)
    /\ loop' = "halted"
    /\ UNCHANGED <<running, stopped>>
    /\ UNCHANGED monitorVars

\* The stop request: the flag is taken down, wherever the loop stands.
Stop ==
    /\ running
    /\ running' = FALSE
    /\ stopped' = IF loop = "cycle" THEN "in_cycle" ELSE "between"
    /\ UNCHANGED loop
    /\ UNCHANGED monitorVars

\* The steps of check_all_positions.
CycleSweep == loop = "cycle" /\ DuplicateSweep /\ UNCHANGED runVars

CyclePoll == loop = "cycle" /\ CheckAll /\ UNCHANGED runVars

CycleEvaluate ==
    /\ loop = "cycle"
    /\ EvaluateAll
    /\ loop' = "sleep"
    /\ stopped' = IF stopped = "in_cycle" THEN "completed" ELSE stopped
    /\ UNCHANGED running

\* check_all_positions raises (a request to the exchange failed for good): the
\* handler of run_forever logs the error and the rest of the cycle is not run.
CycleRaises ==
    /\ loop = "cycle"
    /\ loop' = "sleep"
    /\ phase' = "sweep"
    /\ stopped' = IF stopped = "in_cycle" THEN "aborted" ELSE stopped
    /\ last' = [NoEvent EXCEPT !.op = "error"]
    /\ calls' = <<>>
    /\ UNCHANGED <<positions, closedLog, entries, exAmt, exAlgo, exEntry, running>>

\* The wait for the next cycle is over.
SleepOver ==
    /\ loop = "sleep"
    /\ loop' = "head"
    /\ UNCHANGED <<running, stopped>>
    /\ UNCHANGED monitorVars

\* The monitor under run_forever; the user's commands are left out.
RunNext ==
    \/ SubmitEntry /\ UNCHANGED runVars /\ UNCHANGED exceptRun
    \/ EntryFills /\ UNCHANGED runVars /\ UNCHANGED exceptRun
    \/ Trigger /\ UNCHANGED runVars /\ UNCHANGED exceptRun
    \/ LoopHead /\ UNCHANGED exceptRun
    \/ Halt /\ UNCHANGED exceptRun
    \/ Stop /\ UNCHANGED exceptRun
    \/ CycleSweep /\ UNCHANGED exceptRun
    \/ CyclePoll /\ UNCHANGED exceptRun
    \/ CycleEvaluate /\ UNCHANGED exceptRun
    \/ CycleRaises /\ UNCHANGED exceptRun
    \/ SleepOver /\ UNCHANGED exceptRun

RunSpec == Init /\ [][RunNext]_vars

\* ------------------------------------------------------------ computations
\* A computation is set up with its inputs in the initial state and made in
\* one step, which records the result.
Made(out) == calc' = [calc EXCEPT !.done = TRUE, !.out = out]

\* _force_close for a position of either side, against any amount the
\* exchange can report for the symbol.
CloseInputs ==
    [op : {"force_close"}, side : {"LONG", "SHORT"}, quantity : {EntryQty},
     amt : (0 - MaxAmt)..MaxAmt, f1 : Faults1, f2 : Faults2, f3 : Faults2,
     reduced : {0, StepSize}, done : {FALSE}, out : {<<>>}]

CloseInit ==
    /\ Start
    /\ calc \in CloseInputs

CloseMade ==
    /\ calc.op = "force_close"
    /\ ~calc.done
    /\ Made(ForceClose([NewPosition(1, calc.side, calc.quantity)
                            EXCEPT !.entry_filled = TRUE, !.tp_sl_placed = TRUE],
                       <<>>, calc.amt, "force_closed",
                       calc.f1, calc.f2, calc.f3, calc.reduced).calls)

CloseNext == CloseMade /\ UNCHANGED exceptCalc

CloseSpec == CloseInit /\ [][CloseNext]_vars

\* _adjust_quantity_precision for a raw quantity and a step size, in units.
RoundInputs ==
    [op : {"round"}, quantity : 0..MaxQty, step_size : 1..MaxStep,
     done : {FALSE}, out : {0}]

RoundInit ==
    /\ Start
    /\ calc \in RoundInputs

RoundMade ==
    /\ calc.op = "round"
    /\ ~calc.done
    /\ Made(RoundQty(calc.quantity, calc.step_size))

RoundNext == RoundMade /\ UNCHANGED exceptCalc

RoundSpec == RoundInit /\ [][RoundNext]_vars

\* One position's evaluations over its lifetime: each cycle evaluates it at a
\* hold time that never runs backwards and applies the action to its record.
Applied(p, a) ==
    IF a.action = "close"
    THEN [p EXCEPT !.closed = TRUE, !.close_reason = a.reason]
    ELSE IF a.action = "adjust_tp"
    THEN [Marked(p, a) EXCEPT !.current_tp_pct = a.new_tp_pct]
    ELSE Marked(p, a)

LifeInputs ==
    [op : {"lifetime"}, pos : {NewPosition(1, "SHORT", EntryQty)},
     before : {NewPosition(1, "SHORT", EntryQty)}, hours_held : {0},
     drop60 : {FALSE}, consecutive : {FALSE},
     n2 : {0}, n12 : {0}, cycles : {0}, out : {Hold}]

LifeInit ==
    /\ Start
    /\ calc \in LifeInputs

LifeCycle ==
    /\ calc.op = "lifetime"
    /\ calc.cycles < MaxCycles
    /\ ~calc.pos.closed
    /\ \E hours_held \in calc.hours_held..3, s2h \in {"strong", "medium", "weak"},
          drop60 \in BOOLEAN, consecutive \in BOOLEAN :
          LET a == EvaluatePosition(calc.pos, hours_held, s2h, drop60, consecutive)
          IN  calc' = [calc EXCEPT !.pos = Applied(calc.pos, a),
                                   !.before = calc.pos,
                                   !.hours_held = hours_held,
                                   !.drop60 = drop60,
                                   !.consecutive = consecutive,
                                   !.n2 = @ + (IF a.mark = 2 THEN 1 ELSE 0),
                                   !.n12 = @ + (IF a.mark = 12 THEN 1 ELSE 0),
                                   !.cycles = @ + 1,
                                   !.out = a]

LifeNext == LifeCycle /\ UNCHANGED exceptCalc

LifeSpec == LifeInit /\ [][LifeNext]_vars

\* The risk filter pipeline.  A filter sees its own data: "safe" or "danger"
\* when the fetch succeeded, "failed" when it did not.
FilterData == {"safe", "danger", "failed"}

\* A filter that rejects when it has no data.
RiskFilterFailClosed(i, data) ==
    [pass |-> data = "safe", reason |-> IF data = "safe" THEN 0 ELSE i]

\* One filter: rejects on dangerous data with its own reason, passes otherwise.
RiskFilter(i, data) ==
    [pass |-> data # "danger", reason |-> IF data = "danger" THEN i ELSE 0]

\* The verdict of every filter on its data.
Verdicts(datas) == [i \in 1..FilterCount |-> RiskFilter(i, datas[i])]

\* A pipeline that reports the last rejection.
RiskFiltersLastReason(datas) ==
    LET rejecting == {i \in 1..FilterCount : ~Verdicts(datas)[i].pass}
    IN  IF rejecting = {}
        THEN [accepted |-> TRUE, reason |-> 0]
        ELSE [accepted |-> FALSE,
              reason |-> Verdicts(datas)[CHOOSE i \in rejecting :
                                            \A j \in rejecting : j <= i].reason]

RECURSIVE RunFilters(_, _)
RunFilters(datas, i) ==
    IF i > FilterCount
    THEN [accepted |-> TRUE, reason |-> 0]
    ELSE LET v == RiskFilter(i, datas[i])
         IN  IF ~v.pass
             THEN [accepted |-> FALSE, reason |-> v.reason]
             ELSE RunFilters(datas, i + 1)

\* The pipeline: the filters in order, stopping at the first rejection.
RiskFilters(datas) == RunFilters(datas, 1)

FilterInputs ==
    [op : {"filter"}, datas : [1..FilterCount -> FilterData],
     done : {FALSE}, out : {[accepted |-> FALSE, reason |-> 0]}]

FilterInit ==
    /\ Start
    /\ calc \in FilterInputs

FilterMade ==
    /\ calc.op = "filter"
    /\ ~calc.done
    /\ Made(RiskFilters(calc.datas))

FilterNext == FilterMade /\ UNCHANGED exceptCalc

FilterSpec == FilterInit /\ [][FilterNext]_vars

\* The notifier.  A channel's transport either delivers or fails; the SMTP
\* transport can fail at the connection, at the login or at the sending.
SmtpOutcomes == {"ok", "connect", "login", "send"}

NoNotice == [ok |-> FALSE, raised |-> FALSE, tried |-> {}]

\* TelegramNotifier.send: True when delivered, False when not.
TelegramSend(telegram) ==
    [NoNotice EXCEPT !.ok = (telegram = "ok"), !.tried = {"telegram"}]

\* send_email_alert letting the transport's exception out.
SendEmailAlertRaises(email_enabled, smtp) ==
    IF ~email_enabled
    THEN NoNotice
    ELSE [NoNotice EXCEPT !.ok = (smtp = "ok"), !.raised = (smtp # "ok"),
                          !.tried = {"email"}]

\* send_email_alert: skipped when email is not configured; any exception of the
\* transport is logged and answered with False.
SendEmailAlert(email_enabled, smtp) ==
    IF ~email_enabled
    THEN NoNotice
    ELSE [NoNotice EXCEPT !.ok = (smtp = "ok"), !.tried = {"email"}]

\* send_critical_alert giving up after a failed Telegram send.
SendCriticalAlertUntilFailure(telegram, email_enabled, smtp) ==
    LET t == TelegramSend(telegram)
    IN  IF ~t.ok THEN t
        ELSE LET e == SendEmailAlert(email_enabled, smtp)
             IN  [ok |-> t.ok \/ e.ok, raised |-> e.raised, tried |-> t.tried \cup e.tried]

\* send_critical_alert: the Telegram send, then the email alert; an exception of
\* the first await ends the coroutine before the second.
SendCriticalAlert(telegram, email_enabled, smtp) ==
    LET t == TelegramSend(telegram)
    IN  IF t.raised THEN t
        ELSE LET e == SendEmailAlert(email_enabled, smtp)
             IN  [ok |-> t.ok \/ e.ok, raised |-> e.raised, tried |-> t.tried \cup e.tried]

\* A notification issued from the trading loop, and the loop after it.
NotifyInputs ==
    [op : {"notify"}, kind : {"telegram", "email", "critical"},
     telegram : {"ok", "failed"}, email_enabled : BOOLEAN, smtp : SmtpOutcomes,
     done : {FALSE}, out : {NoNotice}, caller : {"awaiting"}]

NotifyInit ==
    /\ Start
    /\ calc \in NotifyInputs

Notify ==
    /\ calc.op = "notify"
    /\ ~calc.done
    /\ Made(CASE calc.kind = "telegram" -> TelegramSend(calc.telegram)
              [] calc.kind = "email" -> SendEmailAlert(calc.email_enabled, calc.smtp)
              [] OTHER -> SendCriticalAlert(calc.telegram, calc.email_enabled, calc.smtp))

\* The awaiting coroutine resumes: with the result, or with the exception.
Resume ==
    /\ calc.op = "notify"
    /\ calc.done
    /\ calc.caller = "awaiting"
    /\ calc' = [calc EXCEPT !.caller = IF calc.out.raised THEN "aborted" ELSE "continued"]

NotifyNext ==
    \/ Notify /\ UNCHANGED exceptCalc
    \/ Resume /\ UNCHANGED exceptCalc

NotifySpec == NotifyInit /\ [][NotifyNext]_vars

\* The exchange info cache.  A copy of the trading rules carries the time its
\* fetch was requested and the time the exchange produced it.  time.time() is
\* seconds since 1970, far beyond the time-to-live, so the clock starts there.
NoCopy == [none |-> TRUE, requested |-> 0, produced |-> 0]

\* A cache that still serves a copy of exactly the time-to-live.
FreshInclusive(t, ts) == t - ts <= EXCHANGE_INFO_TTL

\* now - _exchange_info_ts < _EXCHANGE_INFO_TTL
Fresh(t, ts) == t - ts < EXCHANGE_INFO_TTL

CacheInputs ==
    [op : {"cache"}, clock : {EXCHANGE_INFO_TTL},
     exchange_info_cache : {NoCopy}, exchange_info_ts : {0},
     caller : {[c \in Callers |-> [pc |-> "idle", now |-> 0]]},
     event : {"none"}, had : {NoCopy}, out : {NoCopy}]

CacheInit ==
    /\ Start
    /\ calc \in CacheInputs

\* get_exchange_info up to its return or its await.
GetExchangeInfo(c) ==
    /\ calc.op = "cache"
    /\ calc.caller[c].pc = "idle"
    /\ IF Fresh(calc.clock, calc.exchange_info_ts)
       THEN calc' = [calc EXCEPT !.event = "hit", !.out = calc.exchange_info_cache,
                                 !.had = calc.exchange_info_cache]
       ELSE calc' = [calc EXCEPT !.caller[c] = [pc |-> "fetching", now |-> calc.clock],
                                 !.event = "fetch", !.had = calc.exchange_info_cache]

\* client.get_exchange_info answers; the cache and its timestamp are refreshed.
Refreshed(c) ==
    /\ calc.op = "cache"
    /\ calc.caller[c].pc = "fetching"
    /\ \E produced \in calc.caller[c].now..calc.clock :
          LET copy == [none |-> FALSE, requested |-> calc.caller[c].now,
                       produced |-> produced]
          IN  calc' = [calc EXCEPT !.exchange_info_cache = copy,
                                   !.exchange_info_ts = calc.caller[c].now,
                                   !.caller[c] = [pc |-> "idle", now |-> 0],
                                   !.event = "refreshed", !.out = copy]

\* client.get_exchange_info raises; the cache is left as it was.
FetchRaises(c) ==
    /\ calc.op = "cache"
    /\ calc.caller[c].pc = "fetching"
    /\ calc' = [calc EXCEPT !.caller[c] = [pc |-> "idle", now |-> 0],
                            !.event = "raised"]

CacheTick ==
    /\ calc.op = "cache"
    /\ calc.clock < EXCHANGE_INFO_TTL + MaxTime
    /\ calc' = [calc EXCEPT !.clock = @ + 1, !.event = "none"]

CacheNext ==
    \/ (\E c \in Callers : GetExchangeInfo(c)) /\ UNCHANGED exceptCalc
    \/ (\E c \in Callers : Refreshed(c)) /\ UNCHANGED exceptCalc
    \/ (\E c \in Callers : FetchRaises(c)) /\ UNCHANGED exceptCalc
    \/ CacheTick /\ UNCHANGED exceptCalc

CacheSpec == CacheInit /\ [][CacheNext]_vars

\* The realtime stream's connection.  After a disconnect the stream sleeps for
\* the reconnect delay and connects again; an attempt the exchange refuses is a
\* disconnect like any other.  The exchange accepts or refuses connections.
ReconnectsOnce(failures) == failures = 0

\* Whether another attempt is made after `failures` refused ones: always.
Reconnects(failures) == TRUE

\* The delay slept before the attempt that follows `failures` refused ones.
ReconnectDelay(failures) == RECONNECT_DELAY

Saturated(n, max) == IF n < max THEN n + 1 ELSE n

WsInputs ==
    [op : {"ws"}, conn : {"connecting"}, accepting : BOOLEAN, cause : {"start"},
     delay : {0}, failures : {0}, drops : {0}, flips : {0}]

WsInit ==
    /\ Start
    /\ calc \in WsInputs

\* The connection is lost: an error, a close by the exchange, or the stream's
\* own teardown at the end of the connection lifetime.
Disconnect ==
    /\ calc.op = "ws"
    /\ calc.conn = "up"
    /\ calc.drops < MaxDrops
    /\ \E cause \in {"error", "closed", "lifetime"} :
          calc' = [calc EXCEPT !.conn = "waiting", !.cause = cause,
                               !.delay = ReconnectDelay(0),
                               !.failures = 0, !.drops = @ + 1]

\* The sleep before the reconnect is over.
DelayOver ==
    /\ calc.op = "ws"
    /\ calc.conn = "waiting"
    /\ calc' = [calc EXCEPT !.conn = "connecting"]

\* The connection attempt: established, or refused and scheduled again.
Connect ==
    /\ calc.op = "ws"
    /\ calc.conn = "connecting"
    /\ IF calc.accepting
       THEN calc' = [calc EXCEPT !.conn = "up", !.failures = 0]
       ELSE IF Reconnects(calc.failures)
       THEN calc' = [calc EXCEPT !.conn = "waiting", !.cause = "refused",
                                 !.delay = ReconnectDelay(calc.failures + 1),
                                 !.failures = Saturated(@, MaxDrops)]
       ELSE calc' = [calc EXCEPT !.conn = "stopped", !.cause = "refused"]

\* The exchange starts or stops accepting connections.
ExchangeChanges ==
    /\ calc.op = "ws"
    /\ calc.flips < MaxFlips
    /\ calc' = [calc EXCEPT !.accepting = ~@, !.flips = @ + 1]

WsNext ==
    \/ Disconnect /\ UNCHANGED exceptCalc
    \/ DelayOver /\ UNCHANGED exceptCalc
    \/ Connect /\ UNCHANGED exceptCalc
    \/ ExchangeChanges /\ UNCHANGED exceptCalc

\* The stream's task is scheduled as long as it has a step to take.
WsSpec ==
    /\ WsInit
    /\ [][WsNext]_vars
    /\ WF_vars(DelayOver /\ UNCHANGED exceptCalc)
    /\ WF_vars(Connect /\ UNCHANGED exceptCalc)

\* The consecutive-surge check.  A kline carries its volume and its taker buy
\* volume; yesterday's daily kline carries the day's sell volume.  The exchange
\* answers the request for the hourly klines from the signal time to the entry
\* time with the klines it has in that window.
HourKlines ==
    {k \in [volume : 0..MaxVolume, taker_buy_volume : 0..1] :
        k.taker_buy_volume <= k.volume}

\* hour_sell / avg_hour_sell >= 10.0 with avg_hour_sell = sell_volume / 24.
RatioReached(kline, yesterday_sell) ==
    (kline.volume - kline.taker_buy_volume) * 24 >= SURGE_RATIO * yesterday_sell

\* _check_consecutive_surge: all(ratio >= 10.0 for ratio in ratios).
CheckConsecutiveSurge(klines, yesterday_sell) ==
    \A k \in 1..Len(klines) : RatioReached(klines[k], yesterday_sell)

\* The klines of the window the exchange returns.
Returned(signal_hour, entry_hour, has_signal, has_entry) ==
    (IF has_signal THEN <<signal_hour>> ELSE <<>>)
        \o (IF has_entry THEN <<entry_hour>> ELSE <<>>)

SurgeInputs ==
    [op : {"surge"}, signal_hour : HourKlines, entry_hour : HourKlines,
     has_signal : BOOLEAN, has_entry : BOOLEAN,
     yesterday_sell : {24 * a : a \in 1..MaxAvg},
     done : {FALSE}, out : {FALSE}]

SurgeInit ==
    /\ Start
    /\ calc \in SurgeInputs

SurgeMade ==
    /\ calc.op = "surge"
    /\ ~calc.done
    /\ Made(CheckConsecutiveSurge(
                Returned(calc.signal_hour, calc.entry_hour,
                         calc.has_signal, calc.has_entry),
                calc.yesterday_sell))

SurgeNext == SurgeMade /\ UNCHANGED exceptCalc

SurgeSpec == SurgeInit /\ [][SurgeNext]_vars

\* The dashboard's POST of a manual order or a manual close.  A fetch either
\* brings a response (with an ok or an error status), or fails before the
\* request reached the backend, or fails after it did (an empty response, a
\* reset connection).
FetchOutcomes == {"ok", "http_error", "unsent", "empty_response"}

Reached(outcome) == outcome # "unsent"

Throws(outcome) == outcome \in {"unsent", "empty_response"}

PostInputs ==
    [op : {"post"}, request : {"order", "close"}, pc : {"form"}, submitting : {FALSE},
     i : {0}, fetched : {<<>>}, received : {0}, confirmations : {0},
     result : {""}]

PostInit ==
    /\ Start
    /\ calc \in PostInputs

\* handleSubmit (an order) or handleClose (a close) up to the await: the user
\* confirms or declines.
HandleSubmit ==
    /\ calc.op = "post"
    /\ calc.pc = "form"
    /\ ~calc.submitting
    /\ calc.confirmations < MaxConfirms
    /\ \E confirmed \in BOOLEAN, request \in {"order", "close"} :
          IF confirmed
          THEN calc' = [calc EXCEPT !.pc = "fetch", !.submitting = TRUE, !.i = 0,
                                    !.request = request,
                                    !.fetched = <<>>, !.received = 0,
                                    !.confirmations = @ + 1, !.result = ""]
          ELSE calc' = [calc EXCEPT !.request = request, !.result = "declined"]

\* fetchWithRetry: one turn of the loop.
Fetch ==
    /\ calc.op = "post"
    /\ calc.pc = "fetch"
    /\ \E outcome \in FetchOutcomes :
          calc' = [calc EXCEPT
                      !.fetched = Append(@, outcome),
                      !.received = @ + (IF Reached(outcome) THEN 1 ELSE 0),
                      !.pc = IF ~Throws(outcome) THEN "response"
                             ELSE IF calc.i < RETRIES THEN "timer"
                             ELSE "thrown"]

\* The 500 ms timer of the retry fires and the loop continues.
RetryTimer ==
    /\ calc.op = "post"
    /\ calc.pc = "timer"
    /\ calc' = [calc EXCEPT !.i = @ + 1, !.pc = "fetch"]

\* post and the handler after the await: the result is shown, the form is free.
Settle ==
    /\ calc.op = "post"
    /\ calc.pc \in {"response", "thrown"}
    /\ calc' = [calc EXCEPT
                   !.pc = "form", !.submitting = FALSE,
                   !.result = IF calc.pc = "response" /\ calc.fetched[Len(calc.fetched)] = "ok"
                              THEN "placed" ELSE "failed"]

PostNext ==
    \/ HandleSubmit /\ UNCHANGED exceptCalc
    \/ Fetch /\ UNCHANGED exceptCalc
    \/ RetryTimer /\ UNCHANGED exceptCalc
    \/ Settle /\ UNCHANGED exceptCalc

PostSpec == PostInit /\ [][PostNext]_vars

\* The positions page.  `closing` is the symbol whose Close control is disabled,
\* 0 for null; every confirmed handleClose has a request that is posting, then
\* refreshing the page's data, then leaves through the finally.
PageInputs ==
    [op : {"page"}, closing : {0}, requests : {<<>>}, event : {"none"}]

PageInit ==
    /\ Start
    /\ calc \in PageInputs

Disabled(closing, symbol) == closing = symbol

Dropped(requests, k) ==
    [j \in 1..(Len(requests) - 1) |-> IF j < k THEN requests[j] ELSE requests[j + 1]]

\* handleClose up to await api.closePosition: a click on an enabled control.
HandleClose(symbol) ==
    /\ calc.op = "page"
    /\ ~Disabled(calc.closing, symbol)
    /\ Len(calc.requests) < MaxRequests
    /\ \E confirmed \in BOOLEAN :
          IF confirmed
          THEN calc' = [calc EXCEPT
                           !.closing = symbol,
                           !.requests = Append(@, [symbol |-> symbol, pc |-> "posting"]),
                           !.event = "click"]
          ELSE calc' = [calc EXCEPT !.event = "declined"]

\* api.closePosition resolves: await fetchData() follows.
CloseResolves(k) ==
    /\ calc.op = "page"
    /\ k \in 1..Len(calc.requests)
    /\ calc.requests[k].pc = "posting"
    /\ calc' = [calc EXCEPT !.requests[k].pc = "refreshing", !.event = "resolved"]

\* api.closePosition rejects, or fetchData is over: finally setClosing(null).
CloseFinally(k) ==
    /\ calc.op = "page"
    /\ k \in 1..Len(calc.requests)
    /\ calc' = [calc EXCEPT !.closing = 0,
                            !.requests = Dropped(@, k),
                            !.event = "finally"]

PageNext ==
    \/ (\E symbol \in Symbols : HandleClose(symbol)) /\ UNCHANGED exceptCalc
    \/ (\E k \in 1..MaxRequests : CloseResolves(k)) /\ UNCHANGED exceptCalc
    \/ (\E k \in 1..MaxRequests : CloseFinally(k)) /\ UNCHANGED exceptCalc

PageSpec == PageInit /\ [][PageNext]_vars

\* The log page's live mode.  `sockets` are the WebSockets the effect has
\* created, each with its readyState and whether its handlers are attached;
\* `ws` is the effect instance's variable and wsRef the page's ref (0 for none),
\* `reconnectTimer` whether the timer is pending, `alive` the instance's flag.
LogsInputs ==
    [op : {"logs"}, mounted : {TRUE}, isLive : {TRUE}, alive : {TRUE},
     sockets : {<<[readyState |-> "CONNECTING", handlers |-> TRUE]>>},
     ws : {1}, wsRef : {1}, reconnectTimer : {FALSE}, event : {"mount"}]

LogsInit ==
    /\ Start
    /\ calc \in LogsInputs

\* Whether the cleanup calls ws.close(): only on an OPEN or CLOSING socket.
ClosesOnCleanup(readyState) == readyState \in {"OPEN", "CLOSING"}

\* WebSocket.close(): a socket not yet closed starts closing.
WsClosed(socket) ==
    IF socket.readyState \in {"CONNECTING", "OPEN"}
    THEN [socket EXCEPT !.readyState = "CLOSING"]
    ELSE socket

\* connect(): a new socket with its handlers, kept in ws and in wsRef.
LogsConnect(c) ==
    [c EXCEPT !.sockets = Append(@, [readyState |-> "CONNECTING", handlers |-> TRUE]),
              !.ws = Len(c.sockets) + 1,
              !.wsRef = Len(c.sockets) + 1]

\* The cleanup of the live-mode effect.
LogsCleanup(c) ==
    [c EXCEPT !.alive = FALSE,
              !.reconnectTimer = FALSE,
              !.sockets[c.ws] =
                  LET s == [@ EXCEPT !.handlers = FALSE]
                  IN  IF ClosesOnCleanup(@.readyState) THEN WsClosed(s) ELSE s]

\* The user leaves live mode: the cleanup, then the effect with isLive false.
LeaveLive ==
    /\ calc.op = "logs"
    /\ calc.mounted /\ calc.isLive
    /\ LET c == LogsCleanup(calc)
       IN  calc' = [c EXCEPT !.isLive = FALSE,
                             !.sockets[c.wsRef] = WsClosed(@),
                             !.event = "leave"]

\* The user enters live mode: the effect runs and connects.
EnterLive ==
    /\ calc.op = "logs"
    /\ calc.mounted /\ ~calc.isLive
    /\ Len(calc.sockets) < MaxSockets
    /\ calc' = [LogsConnect(calc) EXCEPT !.isLive = TRUE, !.alive = TRUE,
                                         !.event = "enter"]

\* The page unmounts: the cleanup of the live-mode effect, if it is in live mode.
Unmount ==
    /\ calc.op = "logs"
    /\ calc.mounted
    /\ calc' = [(IF calc.isLive THEN LogsCleanup(calc) ELSE calc)
                    EXCEPT !.mounted = FALSE, !.event = "unmount"]

\* A connecting socket is established.
SocketOpens(k) ==
    /\ calc.op = "logs"
    /\ k \in 1..Len(calc.sockets)
    /\ calc.sockets[k].readyState = "CONNECTING"
    /\ calc' = [calc EXCEPT !.sockets[k].readyState = "OPEN", !.event = "open"]

\* A socket is closed: the connection failed or was lost, or its closing is
\* over.  onclose, if attached and alive, schedules the reconnect.
SocketCloses(k) ==
    /\ calc.op = "logs"
    /\ k \in 1..Len(calc.sockets)
    /\ calc.sockets[k].readyState # "CLOSED"
    /\ calc' = [calc EXCEPT
                   !.sockets[k].readyState = "CLOSED",
                   !.reconnectTimer =
                       IF calc.sockets[k].handlers /\ calc.alive THEN TRUE ELSE @,
                   !.event = "close"]

\* The reconnect timer fires: connect(), which returns at once if not alive.
ReconnectTimer ==
    /\ calc.op = "logs"
    /\ calc.reconnectTimer
    /\ Len(calc.sockets) < MaxSockets
    /\ calc' = [(IF calc.alive THEN LogsConnect(calc) ELSE calc)
                    EXCEPT !.reconnectTimer = FALSE, !.event = "timer"]

LogsNext ==
    \/ LeaveLive /\ UNCHANGED exceptCalc
    \/ EnterLive /\ UNCHANGED exceptCalc
    \/ Unmount /\ UNCHANGED exceptCalc
    \/ (\E k \in 1..MaxSockets : SocketOpens(k)) /\ UNCHANGED exceptCalc
    \/ (\E k \in 1..MaxSockets : SocketCloses(k)) /\ UNCHANGED exceptCalc
    \/ ReconnectTimer /\ UNCHANGED exceptCalc

LogsSpec == LogsInit /\ [][LogsNext]_vars

\* The kline stream hook.  Every run of its effect is an instance with its own
\* sockets, its variable ws (0 for null), its reconnect timer and its disposed
\* flag; `called` tells whether the instance's last handler invoked onUpdate,
\* `late` what the instance did after it was disposed.
NewInstance ==
    [disposed |-> FALSE, sockets |-> <<"CONNECTING">>, ws |-> 1,
     reconnectTimer |-> FALSE, called |-> FALSE, late |-> {}]

KlineInputs == [op : {"kline"}, inst : {<<NewInstance>>}, event : {"effect"}]

KlineInit ==
    /\ Start
    /\ calc \in KlineInputs

\* WebSocket.close() on a readyState.
ReadyStateClosed(readyState) ==
    IF readyState \in {"CONNECTING", "OPEN"} THEN "CLOSING" ELSE readyState

\* connect(): nothing once disposed, else a new socket kept in ws.
KlineConnect(c) ==
    IF c.disposed
    THEN c
    ELSE [c EXCEPT !.sockets = Append(@, "CONNECTING"), !.ws = Len(c.sockets) + 1]

\* socket.onopen: a disposed instance closes the socket.
KlineOnOpen(c, k) ==
    IF c.disposed THEN [c EXCEPT !.sockets[k] = ReadyStateClosed(@)] ELSE c

\* socket.onmessage: onUpdate for a kline message, unless disposed.
KlineOnMessage(c, msg) ==
    IF c.disposed THEN c
    ELSE IF msg # "kline" THEN c
    ELSE [c EXCEPT !.called = TRUE]

\* socket.onclose scheduling the reconnect whether disposed or not.
KlineOnCloseUnguarded(c) == [c EXCEPT !.reconnectTimer = TRUE]

\* socket.onclose: the reconnect timer, unless disposed.
KlineOnClose(c) ==
    IF c.disposed THEN c ELSE [c EXCEPT !.reconnectTimer = TRUE]

\* The effect's cleanup.
KlineCleanup(c) ==
    [c EXCEPT !.disposed = TRUE,
              !.reconnectTimer = FALSE,
              !.sockets = IF c.ws = 0 THEN @
                          ELSE [@ EXCEPT ![c.ws] =
                                   IF @ \in {"OPEN", "CONNECTING"}
                                   THEN ReadyStateClosed(@) ELSE @],
              !.ws = 0]

\* What a step of a disposed instance did that it must not do.
Late(c, d) ==
    IF ~c.disposed THEN {}
    ELSE (IF d.called THEN {"onUpdate"} ELSE {})
         \cup (IF Len(d.sockets) > Len(c.sockets) THEN {"socket"} ELSE {})
         \cup (IF d.reconnectTimer THEN {"timer"} ELSE {})

\* Instance i as a step leaves it: its handler ran on it with `called` reset.
Stepped(i, d) == [d EXCEPT !.late = calc.inst[i].late \cup Late(calc.inst[i], d)]

Handling(i) == [calc.inst[i] EXCEPT !.called = FALSE]

\* The current instance is disposed: the component unmounts or is disabled, or
\* symbol or interval change and the effect runs again.
Dispose ==
    /\ calc.op = "kline"
    /\ ~calc.inst[Len(calc.inst)].disposed
    /\ \E cause \in {"unmount", "disabled", "symbol", "interval"} :
          LET i == Len(calc.inst)
              disposed == [calc.inst EXCEPT
                              ![i] = Stepped(i, KlineCleanup(Handling(i)))]
          IN  /\ cause \in {"symbol", "interval"} => i < MaxInstances
              /\ calc' = [calc EXCEPT
                              !.inst = IF cause \in {"symbol", "interval"}
                                       THEN Append(disposed, NewInstance)
                                       ELSE disposed,
                              !.event = cause]

KlineOpens(i, k) ==
    /\ calc.op = "kline"
    /\ i \in 1..Len(calc.inst)
    /\ k \in 1..Len(calc.inst[i].sockets)
    /\ calc.inst[i].sockets[k] = "CONNECTING"
    /\ calc' = [calc EXCEPT
                   !.inst[i] = Stepped(i, KlineOnOpen(
                                   [Handling(i) EXCEPT !.sockets[k] = "OPEN"], k)),
                   !.event = "open"]

\* A message arrives on a socket that is open or closing.
KlineMessage(i, k) ==
    /\ calc.op = "kline"
    /\ i \in 1..Len(calc.inst)
    /\ k \in 1..Len(calc.inst[i].sockets)
    /\ calc.inst[i].sockets[k] \in {"OPEN", "CLOSING"}
    /\ \E msg \in {"kline", "other", "garbage"} :
          calc' = [calc EXCEPT
                      !.inst[i] = Stepped(i, KlineOnMessage(Handling(i), msg)),
                      !.event = "message"]

\* A socket is closed: the connection failed or was lost, or its closing is over.
KlineCloses(i, k) ==
    /\ calc.op = "kline"
    /\ i \in 1..Len(calc.inst)
    /\ k \in 1..Len(calc.inst[i].sockets)
    /\ calc.inst[i].sockets[k] # "CLOSED"
    /\ calc' = [calc EXCEPT
                   !.inst[i] = Stepped(i, KlineOnClose(
                                   [Handling(i) EXCEPT !.sockets[k] = "CLOSED"])),
                   !.event = "close"]

\* The reconnect timer fires.
KlineTimer(i) ==
    /\ calc.op = "kline"
    /\ i \in 1..Len(calc.inst)
    /\ calc.inst[i].reconnectTimer
    /\ Len(calc.inst[i].sockets) < MaxSockets
    /\ calc' = [calc EXCEPT
                   !.inst[i] = Stepped(i, KlineConnect(
                                   [Handling(i) EXCEPT !.reconnectTimer = FALSE])),
                   !.event = "timer"]

KlineNext ==
    \/ Dispose /\ UNCHANGED exceptCalc
    \/ (\E i \in 1..MaxInstances, k \in 1..MaxSockets : KlineOpens(i, k))
          /\ UNCHANGED exceptCalc
    \/ (\E i \in 1..MaxInstances, k \in 1..MaxSockets : KlineMessage(i, k))
          /\ UNCHANGED exceptCalc
    \/ (\E i \in 1..MaxInstances, k \in 1..MaxSockets : KlineCloses(i, k))
          /\ UNCHANGED exceptCalc
    \/ (\E i \in 1..MaxInstances : KlineTimer(i)) /\ UNCHANGED exceptCalc

KlineSpec == KlineInit /\ [][KlineNext]_vars

\* ------------------------------------------------------------------ claims
HasPos(ps, oid) == \E i \in 1..Len(ps) : ps[i].entry_order_id = oid

PosOf(ps, oid) == ps[CHOOSE i \in 1..Len(ps) : ps[i].entry_order_id = oid]

\* The position the last handler ran for.
LastPos == PosOf(positions, last.pos)

IsOpen(id, kind) == \E k \in 1..Len(exAlgo) : exAlgo[k].id = id /\ exAlgo[k].type = kind

IsCancel(c) == c.api = "cancel_algo_order"

IsRead(c) == c.api = "get_position_risk"

IsOrder(c) == c.api \in {"place_market_close", "place_order"}

\* The poll found a tracked id missing while the exchange reported a position.
Disappeared == last.op = "check" /\ exAmt # 0 /\ (last.tpGone \/ last.slGone)

\* The tracked id of `kind` names an open order of that kind again; an order
\* that was placed for it has the trigger the position asks for.
Restored(kind, how) ==
    /\ how \in {"placed", "adopted"}
    /\ IsOpen(TrackedId(LastPos, kind), kind)
    /\ how = "placed" =>
          \A k \in 1..Len(exAlgo) :
              exAlgo[k].id = TrackedId(LastPos, kind) =>
                  exAlgo[k].trigger = TriggerOf(LastPos, kind)

NewlyClosed(oid) ==
    /\ HasPos(positions, oid) /\ ~PosOf(positions, oid).closed
    /\ HasPos(positions', oid) /\ PosOf(positions', oid).closed

C3_FlatAfterForceClose ==
    (last.op = "force_close" /\ ~last.alert) =>
        /\ last.path \in {"reduce_only", "plain_retry", "split"}
        /\ exAmt = 0

C3_Witness ==
    /\ last.op = "force_close"
    /\ ~last.alert
    /\ last.path = "split"
    /\ exAmt = 0

\* C4: at most one tracked position of the symbol is active; a position that
\* was closed and recorded is not among the tracked ones again, and every
\* position carries the entry order of a signal of its own.
C4_OneActive ==
    /\ Cardinality(Active) <= 1
    /\ \A k \in 1..Len(closedLog) : ~HasPos(positions, closedLog[k])
    /\ \A i, j \in 1..Len(positions) :
           i # j => positions[i].entry_order_id # positions[j].entry_order_id
    /\ \A i, j \in 1..Len(closedLog) : i # j => closedLog[i] # closedLog[j]
    /\ \A i \in 1..Len(positions) : positions[i].entry_order_id \in 1..entries

C4_Witness ==
    /\ Len(closedLog) >= 1
    /\ Cardinality(Active) = 1
    /\ \E i \in Active : positions[i].tp_sl_placed

C6_ClosedIsTerminal ==
    [][/\ \A i \in 1..Len(positions) :
              positions[i].closed =>
                  LET oid == positions[i].entry_order_id
                  IN  /\ last'.pos # oid
                      /\ \/ /\ HasPos(positions', oid)
                            /\ PosOf(positions', oid) = positions[i]
                         \/ /\ ~HasPos(positions', oid)
                            /\ \E k \in 1..Len(closedLog') : closedLog'[k] = oid
       /\ Len(closedLog) <= Len(closedLog')
       /\ SubSeq(closedLog', 1, Len(closedLog)) = closedLog]_vars

C6_Witness ==
    \E i \in 1..Len(positions) :
        /\ positions[i].closed
        /\ last.op = "check"
        /\ last.pos # 0
        /\ last.pos # positions[i].entry_order_id

\* The placement that found `had` open orders of `kind` adopted the one that
\* is left and created none.
Guarded(kind, had, how) ==
    had >= 1 =>
        /\ how = "adopted"
        /\ Len(OfType(exAlgo, kind)) = 1
        /\ TrackedId(LastPos, kind) = OfType(exAlgo, kind)[1].id

C8_SweepKeepsFirst ==
    [][last'.op = "sweep" =>
          \A t \in {TP, SL} :
              /\ Len(OfType(exAlgo', t)) <= 1
              /\ \A i \in Active :
                     LET p == positions[i]
                         q == PosOf(positions', p.entry_order_id)
                         ex == OfType(exAlgo, t)
                     IN  ex # <<>> =>
                             /\ Len(OfType(exAlgo', t)) = 1
                             /\ OfType(exAlgo', t)[1].trigger = ex[1].trigger
                             /\ TrackedId(p, t) = ex[1].id
                                    <=> TrackedId(q, t) = OfType(exAlgo', t)[1].id]_vars

C8_Witness ==
    /\ last.op = "sweep"
    /\ last.swept >= 1
    /\ Active # {}
    /\ Len(OfType(exAlgo, TP)) = 1

\* C9: a forced close cancels the open conditional orders, then reads the
\* position from the exchange, then submits the close order, whose side and
\* quantity come from the amount that was read.
C9_CancelReadClose ==
    last.op = "force_close" =>
        /\ exAlgo = <<>>
        /\ \E q \in 1..(Len(calls) - 1) :
               /\ IsRead(calls[q])
               /\ \A k \in 1..Len(calls) : IsCancel(calls[k]) => k < q
               /\ \A k \in 1..Len(calls) : IsOrder(calls[k]) => k > q
               /\ IsOrder(calls[q + 1])
               /\ calls[q + 1].qty = RoundQty(Abs(last.amt), StepSize)
               /\ calls[q + 1].side = IF last.amt > 0 THEN "SELL" ELSE "BUY"

C9_Witness ==
    /\ last.op = "force_close"
    /\ \E k \in 1..Len(calls) : IsCancel(calls[k])
    /\ Abs(last.amt) \notin {0, LastPos.quantity}
    /\ ~last.alert

\* The plain market order follows the rejected reduce-only order at once, with
\* its side and its quantity.
RetriedPlain ==
    \E k \in 1..(Len(calls) - 1) :
        /\ calls[k].api = "place_market_close"
        /\ calls[k + 1].api = "place_order"
        /\ calls[k + 1].side = calls[k].side
        /\ calls[k + 1].qty = calls[k].qty
        /\ \A j \in 1..Len(calls) : IsOrder(calls[j]) => j \in {k, k + 1}

MarginRejected ==
    \E k \in 1..Len(last.answers) : last.answers[k] = "margin_insufficient"

\* C11: during a forced close the split close is started if and only if a close
\* order is rejected with the insufficient-margin error.
C11_SplitIffMargin ==
    last.op = "force_close" => (last.path = "split" <=> MarginRejected)

\* The place in `calls` of the reduce-only order of the forced close.
CloseAt == CHOOSE k \in 1..Len(calls) : calls[k].api = "place_market_close"

\* C12: in a split close the first order is within one step size of 50% of the
\* rounded total quantity, and the second order's quantity is the position
\* amount that was re-read from the exchange after the first order and the wait.
C12_SplitQuantities ==
    (last.op = "force_close" /\ last.path = "split") =>
        LET c == CloseAt
        IN  /\ calls[c + 1].api = "place_order"
            /\ Abs(2 * calls[c + 1].qty - calls[c].qty) < 2 * StepSize
            /\ Len(last.answers) = 3 =>
                   /\ IsRead(calls[c + 2])
                   /\ calls[c + 3].api = "place_order"
                   /\ calls[c + 3].qty = calls[c + 2].qty
                   /\ calls[c + 3].side = calls[c].side

C12_Witness ==
    /\ last.op = "force_close"
    /\ last.path = "split"
    /\ Len(last.answers) = 3
    /\ calls[CloseAt + 1].qty > 0
    /\ calls[CloseAt + 3].qty > 0
    /\ calls[CloseAt + 3].qty = calls[CloseAt].qty - calls[CloseAt + 1].qty
    /\ exAmt = 0
    /\ ~last.alert

\* The split close of the last forced close failed: one of its two orders was
\* not accepted.
SplitFailed ==
    /\ last.op = "force_close"
    /\ last.path = "split"
    /\ last.answers[Len(last.answers)] # "ok"

\* C13: when the split close, the second attempt at the close, fails as well,
\* the critical alert is raised and the position stays open in the books.
C13_AlertAfterSplit ==
    SplitFailed =>
        /\ calls[Len(calls)].api = "send_critical_alert"
        /\ ~LastPos.closed

C13_Witness ==
    /\ SplitFailed
    /\ Len(last.answers) = 3
    /\ exAmt # 0
    /\ calls[Len(calls)].api = "send_critical_alert"

\* Caller c's request got an answer of `kind` in this step.
Answered(c, kind) ==
    /\ req[c].state = "try"
    /\ req'[c].sent = req[c].sent + 1
    /\ req'[c].resp = kind

\* Caller c called _request in this step.
Called(c) ==
    /\ req[c].state \in {"idle", "done"}
    /\ req'[c].state \in {"try", "done"}
    /\ req'[c].sent = 0
    /\ now' = now

\* C14: under sustained network failure a request waits 2, 4, 8, 16 and 32
\* seconds between its attempts, 62 s in all, and the 6th failed attempt raises
\* the connection error.
C14_Original ==
    \A c \in Callers :
        req[c].result = "BinanceConnectionError" =>
            /\ req[c].slept = <<2, 4, 8, 16, 32>>
            /\ req[c].sent = 6

\* C15: a rate-limit-ban answer is not retried: the request ends at once with
\* the API error, without a wait, and _ban_until holds the time the answer named.
C15_BanNotRetried ==
    [][\A c \in Callers :
          Answered(c, "ban") =>
              /\ req'[c].state = "done"
              /\ req'[c].result = "BinanceAPIError(-1003)"
              /\ req'[c].slept = req[c].slept
              /\ ban_until' \in {now + d : d \in 1..MaxBan}]_vars

C15_Witness ==
    \E c \in Callers :
        /\ req[c].resp = "ban"
        /\ req[c].state = "done"
        /\ req[c].sent >= 2
        /\ now < ban_until

\* C16: a call of _request made while the clock is before _ban_until ends at
\* once with the API error and sends nothing to the network.
C16_FailFast ==
    [][\A c \in Callers :
          (Called(c) /\ now < ban_until) =>
              /\ req'[c].state = "done"
              /\ req'[c].result = "BinanceAPIError(-1003)"
              /\ req'[c].sent = 0]_vars

C16_Witness ==
    \E c, d \in Callers :
        /\ c # d
        /\ req[c].resp = "ban"
        /\ req[d].state = "done"
        /\ req[d].sent = 0
        /\ req[d].result = "BinanceAPIError(-1003)"
        /\ now < ban_until

\* C17: _ban_until changes only in a step in which a request is answered with
\* the rate-limit ban; a response, a network error and another rejection leave
\* it as it was.
C17_BanFrame ==
    [][/\ ban_until' # ban_until => \E c \in Callers : Answered(c, "ban")
       /\ \A c \in Callers :
              (Answered(c, "ok") \/ Answered(c, "network") \/ Answered(c, "rejected"))
                  => ban_until' = ban_until]_vars

C17_Witness ==
    \E c, d \in Callers :
        /\ ban_until > 0
        /\ req[c].result = "BinanceConnectionError"
        /\ req[d].resp = "rejected"

\* C18: the handler of a stream event (fill, cancel, trigger) leaves the tracked
\* positions and the exchange as they are and schedules a poll; a position is
\* marked filled or closed only in a step that has the exchange's word for it,
\* so an event that is late or comes twice moves nothing.
C18_EventsAdvisory ==
    [][/\ last'.op = "stream" =>
              /\ positions' = positions
              /\ closedLog' = closedLog
              /\ <<exAmt, exAlgo, exEntry>>' = <<exAmt, exAlgo, exEntry>>
              /\ poll'
       /\ \A i \in 1..Len(positions) :
              /\ Len(positions') >= i
              /\ positions'[i].entry_order_id = positions[i].entry_order_id
              => /\ positions'[i].entry_filled /\ ~positions[i].entry_filled
                        => exEntry = "filled"
                 /\ positions'[i].closed /\ ~positions[i].closed
                        => exAmt' = 0]_vars

\* A fill event arrives again for a position that is filled and protected.
C18_Witness ==
    /\ last.op = "stream"
    /\ last.path = "fill"
    /\ poll
    /\ \E i \in Active : positions[i].entry_filled /\ positions[i].tp_sl_placed

\* The tasks with an operation on the orders of sym in progress.
InProgress(sym) ==
    {t \in Tasks : task[t].pc \in {"submitting", "confirming"} /\ task[t].symbol = sym}

\* C19: for any one symbol at most one operation that changes its orders
\* (forced close, placement of the protective orders, cancellation or
\* re-placement) is in progress at a time, also when the close at the maximum
\* hold time meets a late fill notification.
C19_OneAtATime ==
    \A sym \in Symbols : Cardinality(InProgress(sym)) <= 1

\* The timeout close is in progress and the fill notification waits for it.
C19_Witness ==
    \E sym \in Symbols :
        /\ task["cycle"].pc = "submitting"
        /\ task["cycle"].op = "force_close"
        /\ task["cycle"].symbol = sym
        /\ task["stream"].pc = "waiting"
        /\ task["stream"].symbol = sym

C21_CompletesCycle ==
    loop = "halted" => stopped \in {"between", "completed"}

\* The state of a position: Pending, Filled, Protected, Closed.
StateOf(p) ==
    IF p.closed THEN "Closed"
    ELSE IF p.tp_sl_placed THEN "Protected"
    ELSE IF p.entry_filled THEN "Filled"
    ELSE "Pending"

Rank(state) ==
    CASE state = "Pending" -> 1 [] state = "Filled" -> 2
      [] state = "Protected" -> 3 [] state = "Closed" -> 4

\* C22: the protective orders are submitted only once the exchange has
\* confirmed the fill of the entry: a position is registered Pending, is
\* Protected only if it is Filled, never moves back in the order Pending,
\* Filled, Protected, Closed, and leaves Pending only on a confirmed fill.
C22_InOrder ==
    [][/\ \A i \in 1..Len(positions') :
              LET q == positions'[i]
                  oid == q.entry_order_id
              IN  /\ q.tp_sl_placed => q.entry_filled
                  /\ ~HasPos(positions, oid) => StateOf(q) = "Pending"
                  /\ HasPos(positions, oid) =>
                         LET p == PosOf(positions, oid)
                         IN  /\ Rank(StateOf(q)) >= Rank(StateOf(p))
                             /\ (StateOf(p) = "Pending" /\ StateOf(q) # "Pending")
                                    => /\ exEntry = "filled"
                                       /\ StateOf(q) \in {"Filled", "Protected"}
       /\ Len(exAlgo') > Len(exAlgo) =>
              /\ exEntry = "filled"
              /\ \E i \in 1..Len(positions') :
                     positions'[i].entry_filled /\ ~positions'[i].closed]_vars

\* The poll has seen the fill and placed both orders.
C22_Witness ==
    /\ last.op = "check"
    /\ last.tp = "placed"
    /\ last.sl = "placed"
    /\ exEntry = "filled"
    /\ StateOf(LastPos) = "Protected"
    /\ Len(exAlgo) >= 2

\* The poll found a tracked id missing and the exchange reported no position.
Triggered == last.op = "check" /\ last.amt = 0 /\ (last.tpGone \/ last.slGone)

\* C23: when a tracked conditional order has left the open list and the
\* exchange reports the position amount zero, the position is closed with the
\* reason of the order that is gone (tp_triggered for the take-profit,
\* sl_triggered for the stop-loss) and the sibling order is no longer open.
C23_TriggerCloses ==
    Triggered =>
        /\ LastPos.closed
        /\ LastPos.close_reason = IF last.tpGone THEN "tp_triggered" ELSE "sl_triggered"
        /\ LastPos.close_reason = "tp_triggered" => ~IsOpen(LastPos.sl_algo_id, SL)
        /\ LastPos.close_reason = "sl_triggered" => ~IsOpen(LastPos.tp_algo_id, TP)

\* The stop-loss has triggered; the take-profit was open and has been cancelled.
C23_Witness ==
    /\ Triggered
    /\ last.slGone
    /\ ~last.tpGone
    /\ LastPos.closed
    /\ LastPos.close_reason = "sl_triggered"
    /\ OfType(exAlgo, TP) = <<>>

\* The close orders among the calls of a forced close.
OrderCalls(cs) == SelectSeq(cs, IsOrder)

\* C24: the side of the close orders of a forced close follows from the sign
\* of the amount the exchange reports alone: SELL when it is positive, BUY
\* when it is negative, whatever side the books hold.
C24_SideFromSign ==
    (calc.op = "force_close" /\ calc.done /\ calc.amt # 0) =>
        /\ OrderCalls(calc.out) # <<>>
        /\ \A k \in 1..Len(OrderCalls(calc.out)) :
               OrderCalls(calc.out)[k].side = IF calc.amt > 0 THEN "SELL" ELSE "BUY"

\* The books hold a short, the exchange reports a long: the close sells.
C24_Witness ==
    /\ calc.op = "force_close"
    /\ calc.done
    /\ calc.side = "SHORT"
    /\ calc.amt > 0
    /\ Len(OrderCalls(calc.out)) = 3
    /\ OrderCalls(calc.out)[1].side = "SELL"

\* C25: for every raw quantity q and step size s > 0 the adjusted quantity
\* round(q / s) * s is a multiple of s and is not greater than q.
C25_RoundsDown ==
    (calc.op = "round" /\ calc.done) =>
        /\ calc.out % calc.step_size = 0
        /\ calc.out <= calc.quantity

C29_FirstRejection ==
    (calc.op = "filter" /\ calc.done) =>
        LET rejecting == {i \in 1..FilterCount : ~Verdicts(calc.datas)[i].pass}
        IN  /\ calc.out.accepted <=> rejecting = {}
            /\ \A i \in rejecting :
                   (\A j \in rejecting : i <= j)
                       => calc.out.reason = Verdicts(calc.datas)[i].reason

C29_Witness ==
    /\ calc.op = "filter"
    /\ calc.done
    /\ ~calc.out.accepted
    /\ calc.out.reason = 3
    /\ calc.datas[5] = "danger"
    /\ calc.datas[1] = "failed"

\* C30: a filter whose data fetch failed passes, and a candidate for which every
\* filter's fetch failed is accepted.
C30_FailOpen ==
    (calc.op = "filter" /\ calc.done) =>
        /\ \A i \in 1..FilterCount :
               calc.datas[i] = "failed" => Verdicts(calc.datas)[i].pass
        /\ (\A i \in 1..FilterCount : calc.datas[i] = "failed") => calc.out.accepted
        /\ (\A i \in 1..FilterCount : calc.datas[i] # "danger") => calc.out.accepted

C30_Witness ==
    /\ calc.op = "filter"
    /\ calc.done
    /\ \A i \in 1..FilterCount : calc.datas[i] = "failed"
    /\ calc.out.accepted

C35_OneTpAtNewPct ==
    last.op = "adjust_tp" =>
        /\ LastPos.tp_sl_placed
        /\ Len(OfType(exAlgo, TP)) = 1
        /\ OfType(exAlgo, TP)[1].trigger = LastPos.current_tp_pct
        /\ OfType(exAlgo, TP)[1].id = LastPos.tp_algo_id

\* C36: a position is classified as consecutive surge if and only if both the
\* signal hour and the entry hour each show an hourly sell volume of at least 10
\* times the prior day's average hourly sell volume.
C36_BothHours ==
    (calc.op = "surge" /\ calc.done) =>
        (calc.out <=>
            /\ calc.has_signal /\ calc.has_entry
            /\ (calc.signal_hour.volume - calc.signal_hour.taker_buy_volume) * 24
                  >= 10 * calc.yesterday_sell
            /\ (calc.entry_hour.volume - calc.entry_hour.taker_buy_volume) * 24
                  >= 10 * calc.yesterday_sell)

\* C37: one confirmation of a manual order or a manual close results in at most
\* one POST of that request reaching the backend, even when the network fails
\* during the request.
C37_AtMostOnePost ==
    calc.op = "post" => calc.received <= 1

\* C38: while a close request for a symbol is in flight its Close control stays
\* disabled, so no second close request for the symbol is issued before the
\* first has settled, also when a close for another symbol starts or finishes.
C38_DisabledInFlight ==
    calc.op = "page" =>
        \A k \in 1..Len(calc.requests) :
            calc.requests[k].pc = "posting" =>
                /\ Disabled(calc.closing, calc.requests[k].symbol)
                /\ \A j \in 1..Len(calc.requests) :
                      (calc.requests[j].symbol = calc.requests[k].symbol
                          /\ calc.requests[j].pc = "posting") => j = k

\* C39: after the log page leaves live mode or unmounts, no WebSocket opened by
\* the live-mode effect remains open or connecting and no reconnect is
\* scheduled, whatever state the socket was in when the cleanup ran.
C39_NoSocketLeft ==
    (calc.op = "logs" /\ (~calc.mounted \/ ~calc.isLive)) =>
        /\ ~calc.reconnectTimer
        /\ \A k \in 1..Len(calc.sockets) :
              calc.sockets[k].readyState \notin {"CONNECTING", "OPEN"}

\* C40: after the kline stream hook is disposed, the disposed instance never
\* invokes onUpdate again and never creates a WebSocket or a reconnect timer.
C40_DisposedIsQuiet ==
    calc.op = "kline" =>
        \A i \in 1..Len(calc.inst) :
            /\ calc.inst[i].late = {}
            /\ calc.inst[i].disposed =>
                   /\ ~calc.inst[i].called
                   /\ ~calc.inst[i].reconnectTimer
                   /\ calc.inst[i].ws = 0

C40_Witness ==
    /\ calc.op = "kline"
    /\ Len(calc.inst) = 2
    /\ calc.inst[1].disposed
    /\ calc.event = "message"
    /\ Len(calc.inst[1].sockets) = 2
    /\ calc.inst[1].sockets[2] = "CLOSING"
    /\ calc.inst[2].called
    /\ calc.inst[1].late = {}

====
